---- MODULE Spec2Model ----
(***************************************************************************)
(* Clip / ClipGeometry of imaging_model (src/imaging_model/src/clip.rs):   *)
(* bounds(), is_finite() and is_nan() of a clip-stack entry.               *)
(*                                                                         *)
(* f64 values are modelled as fixed-point numbers with two units per 1.0   *)
(* (the integer n stands for n/2), saturating to +/-infinity beyond        *)
(* MaxFinite, plus one NaN.  All inputs are whole numbers, so every sum    *)
(* and product the code forms is exact in this representation.             *)
(***************************************************************************)
EXTENDS Integers, Sequences, FiniteSets

(* ------------------------------ bounds -------------------------------- *)

\* Largest finite magnitude, in half units (stands for f64::MAX).
MaxFinite == 32
\* Longest dash pattern drawn for a stroke.
MaxDash == 2
\* Longest element list drawn for a path.
MaxPathLen == 3
\* The number of values of the blob id counter (2^64 in the program).
Modulus == 4
\* The largest image width and height (u32::MAX in the program).
U32Max == 7

(* ------------------------------- f64 ---------------------------------- *)

PInf == MaxFinite + 1
NInf == -(MaxFinite + 1)
NaN == MaxFinite + 2
\* -0.0: a bit pattern of its own that compares equal to 0.0.  The model
\* only stores and compares it; no arithmetic is applied to it.
NegZero == MaxFinite + 3

\* The f64 value of the whole number n.
Real(n) == 2 * n

\* The literal 0.5 of stroke_bounds.
Half == 1

One == Real(1)
Zero == Real(0)

IsNanF(a) == a = NaN
IsInfF(a) == a = PInf \/ a = NInf
IsFiniteF(a) == ~IsNanF(a) /\ ~IsInfF(a)

\* Rounding of an exact result into the f64 range: overflow gives infinity.
Sat(n) == IF n > MaxFinite THEN PInf ELSE IF n < -MaxFinite THEN NInf ELSE n

SignF(a) == IF a > 0 THEN 1 ELSE IF a < 0 THEN -1 ELSE 0

FNeg(a) == IF IsNanF(a) THEN NaN ELSE -a

FAdd(a, b) ==
    IF IsNanF(a) \/ IsNanF(b) THEN NaN
    ELSE IF IsInfF(a) /\ IsInfF(b) THEN (IF a = b THEN a ELSE NaN)
    ELSE IF IsInfF(a) THEN a
    ELSE IF IsInfF(b) THEN b
    ELSE Sat(a + b)

FSub(a, b) == FAdd(a, FNeg(b))

FMul(a, b) ==
    IF IsNanF(a) \/ IsNanF(b) THEN NaN
    ELSE IF IsInfF(a) \/ IsInfF(b)
         THEN (IF a = 0 \/ b = 0 THEN NaN
               ELSE IF SignF(a) * SignF(b) > 0 THEN PInf ELSE NInf)
    ELSE IF (a * b) >= 0 THEN Sat((a * b) \div 2)
    ELSE Sat(-((-(a * b)) \div 2))

\* f64::abs
FAbs(a) == IF IsNanF(a) THEN NaN ELSE IF a < 0 THEN -a ELSE a

\* f64::min and f64::max: a NaN operand is ignored, the other one is returned.
FMin(a, b) == IF IsNanF(a) THEN b ELSE IF IsNanF(b) THEN a ELSE IF a < b THEN a ELSE b
FMax(a, b) == IF IsNanF(a) THEN b ELSE IF IsNanF(b) THEN a ELSE IF a > b THEN a ELSE b

\* x / 2.0, for x a whole number
FHalve(a) == FMul(Half, a)

Specials == {NaN, PInf, NInf}

\* Mutation of f64 ==: the bit patterns are compared.
FEqBits(a, b) == a = b

\* f64 == (PartialEq for f64): NaN equals nothing, -0.0 equals 0.0.
FEq(a, b) ==
    /\ ~IsNanF(a)
    /\ ~IsNanF(b)
    /\ (IF a = NegZero THEN Zero ELSE a) = (IF b = NegZero THEN Zero ELSE b)

(* ------------------------------ kurbo::Rect --------------------------- *)

Rect(x0, y0, x1, y1) == [x0 |-> x0, y0 |-> y0, x1 |-> x1, y1 |-> y1]

RectIsFinite(r) ==
    IsFiniteF(r.x0) /\ IsFiniteF(r.y0) /\ IsFiniteF(r.x1) /\ IsFiniteF(r.y1)

RectIsNan(r) ==
    IsNanF(r.x0) \/ IsNanF(r.y0) \/ IsNanF(r.x1) \/ IsNanF(r.y1)

RectAbs(r) ==
    Rect(FMin(r.x0, r.x1), FMin(r.y0, r.y1), FMax(r.x0, r.x1), FMax(r.y0, r.y1))

RectFromPoints(p0, p1) == RectAbs(Rect(p0.x, p0.y, p1.x, p1.y))

RectUnion(r, o) ==
    Rect(FMin(r.x0, o.x0), FMin(r.y0, o.y0), FMax(r.x1, o.x1), FMax(r.y1, o.y1))

RectInflate(r, width, height) ==
    Rect(FSub(r.x0, width), FSub(r.y0, height), FAdd(r.x1, width), FAdd(r.y1, height))

RectWidth(r) == FSub(r.x1, r.x0)
RectHeight(r) == FSub(r.y1, r.y0)

Point(x, y) == [x |-> x, y |-> y]

PointIsFinite(p) == IsFiniteF(p.x) /\ IsFiniteF(p.y)
PointIsNan(p) == IsNanF(p.x) \/ IsNanF(p.y)

\* Option<T>
None == <<"None">>
Some(v) == <<"Some", v>>
IsSome(o) == o[1] = "Some"
Unwrap(o) == o[2]

(* ----------------------------- kurbo::Affine -------------------------- *)

\* Affine::new([a, b, c, d, e, f]): x' = a*x + c*y + e, y' = b*x + d*y + f
Affine(a, b, c, d, e, f) == <<a, b, c, d, e, f>>

AffineIsFinite(t) == \A i \in 1..6 : IsFiniteF(t[i])
AffineIsNan(t) == \E i \in 1..6 : IsNanF(t[i])

\* Affine * Point
AffineMulPoint(t, p) ==
    Point(FAdd(FAdd(FMul(t[1], p.x), FMul(t[3], p.y)), t[5]),
          FAdd(FAdd(FMul(t[2], p.x), FMul(t[4], p.y)), t[6]))

\* Mutation of transform_rect_bbox: the rectangle of the transformed min
\* corner and max corner only.
TwoCornerRect(t, r) ==
    LET p0 == AffineMulPoint(t, Point(r.x0, r.y0))
        p1 == AffineMulPoint(t, Point(r.x1, r.y1))
    IN  Rect(p0.x, p0.y, p1.x, p1.y)

\* Affine::transform_rect_bbox: bounding box of the four transformed corners
TransformRectBbox(t, r) ==
    LET p00 == AffineMulPoint(t, Point(r.x0, r.y0))
        p01 == AffineMulPoint(t, Point(r.x0, r.y1))
        p10 == AffineMulPoint(t, Point(r.x1, r.y0))
        p11 == AffineMulPoint(t, Point(r.x1, r.y1))
    IN  RectUnion(RectFromPoints(p00, p01), RectFromPoints(p10, p11))

(* --------------------------- kurbo::RoundedRect ----------------------- *)

Radii(tl, tr, br, bl) ==
    [top_left |-> tl, top_right |-> tr, bottom_right |-> br, bottom_left |-> bl]

\* RoundedRectRadii::from_single_radius
RadiiFromSingle(r) == Radii(r, r, r, r)

RadiiAbs(q) ==
    Radii(FAbs(q.top_left), FAbs(q.top_right), FAbs(q.bottom_right), FAbs(q.bottom_left))

RadiiClamp(q, max) ==
    Radii(FMin(q.top_left, max), FMin(q.top_right, max),
          FMin(q.bottom_right, max), FMin(q.bottom_left, max))

RadiiIsFinite(q) ==
    /\ IsFiniteF(q.top_left) /\ IsFiniteF(q.top_right)
    /\ IsFiniteF(q.bottom_right) /\ IsFiniteF(q.bottom_left)

RadiiIsNan(q) ==
    \/ IsNanF(q.top_left) \/ IsNanF(q.top_right)
    \/ IsNanF(q.bottom_right) \/ IsNanF(q.bottom_left)

\* RoundedRect::from_rect, the only way a RoundedRect is built (its fields are
\* private): the rectangle is normalised and the radii are clamped.
RoundedRectFromRect(rect, radii) ==
    LET r == RectAbs(rect)
        shortest == FMin(RectWidth(r), RectHeight(r))
    IN  [rect |-> r, radii |-> RadiiClamp(RadiiAbs(radii), FHalve(shortest))]

RoundedRectIsFinite(rr) == RectIsFinite(rr.rect) /\ RadiiIsFinite(rr.radii)
RoundedRectIsNan(rr) == RectIsNan(rr.rect) \/ RadiiIsNan(rr.radii)

\* <RoundedRect as Shape>::bounding_box is the bounding box of its rectangle,
\* and <Rect as Shape>::bounding_box is Rect::abs.
RoundedRectBoundingBox(rr) == RectAbs(rr.rect)

(* ----------------------------- kurbo::BezPath ------------------------- *)

MoveTo(p) == [el |-> "MoveTo", p |-> p]
LineTo(p) == [el |-> "LineTo", p |-> p]
\* PathEl::QuadTo(p1, p2): control point p1, end point p
QuadTo(p1, p2) == [el |-> "QuadTo", p1 |-> p1, p |-> p2]
\* PathEl::CurveTo(p1, p2, p3): control points p1 and p2, end point p
CurveTo(p1, p2, p3) == [el |-> "CurveTo", p1 |-> p1, p2 |-> p2, p |-> p3]
ClosePath == [el |-> "ClosePath"]

\* Mutation of PathEl::is_finite: only the end point of a curve is looked at.
PathElIsFiniteEndOnly(e) == IF e.el = "ClosePath" THEN TRUE ELSE PointIsFinite(e.p)

PathElIsFinite(e) ==
    CASE e.el = "ClosePath" -> TRUE
      [] e.el = "QuadTo" -> PointIsFinite(e.p1) /\ PointIsFinite(e.p)
      [] e.el = "CurveTo" -> PointIsFinite(e.p1) /\ PointIsFinite(e.p2) /\ PointIsFinite(e.p)
      [] OTHER -> PointIsFinite(e.p)

PathElIsNan(e) ==
    CASE e.el = "ClosePath" -> FALSE
      [] e.el = "QuadTo" -> PointIsNan(e.p1) \/ PointIsNan(e.p)
      [] e.el = "CurveTo" -> PointIsNan(e.p1) \/ PointIsNan(e.p2) \/ PointIsNan(e.p)
      [] OTHER -> PointIsNan(e.p)

BezPathIsFinite(path) == \A i \in 1..Len(path) : PathElIsFinite(path[i])
BezPathIsNan(path) == \E i \in 1..Len(path) : PathElIsNan(path[i])

\* Point != Point compares the f64 fields: a NaN differs from everything.
PointNe(p, q) == IsNanF(p.x) \/ IsNanF(q.x) \/ IsNanF(p.y) \/ IsNanF(q.y)
                 \/ p.x # q.x \/ p.y # q.y

LineSeg(p0, p1) == [seg |-> "Line", p0 |-> p0, p1 |-> p1]
QuadSeg(p0, p1, p2) == [seg |-> "Quad", p0 |-> p0, p1 |-> p1, p2 |-> p2]
CubicSeg(p0, p1, p2, p3) == [seg |-> "Cubic", p0 |-> p0, p1 |-> p1, p2 |-> p2, p3 |-> p3]

\* kurbo::segments: the segments of the elements from index i on, with start
\* the subpath's first point and last the current point.
RECURSIVE SegmentsFrom(_, _, _, _)
SegmentsFrom(path, i, start, last) ==
    IF i > Len(path) THEN << >>
    ELSE LET e == path[i] IN
         IF e.el = "MoveTo" THEN SegmentsFrom(path, i + 1, e.p, e.p)
         ELSE IF e.el = "LineTo"
              THEN <<LineSeg(last, e.p)>> \o SegmentsFrom(path, i + 1, start, e.p)
         ELSE IF e.el = "QuadTo"
              THEN <<QuadSeg(last, e.p1, e.p)>> \o SegmentsFrom(path, i + 1, start, e.p)
         ELSE IF e.el = "CurveTo"
              THEN <<CubicSeg(last, e.p1, e.p2, e.p)>> \o SegmentsFrom(path, i + 1, start, e.p)
         ELSE IF PointNe(last, start)
              THEN <<LineSeg(last, start)>> \o SegmentsFrom(path, i + 1, start, start)
         ELSE SegmentsFrom(path, i + 1, start, last)

Segments(path) ==
    IF Len(path) = 0 THEN << >>
    ELSE SegmentsFrom(path, 1, path[1].p, path[1].p)

\* One coordinate of QuadBez::extrema: the parameter t = -d0 / dd when
\* dd != 0.0 and 0.0 < t < 1.0, as the exact fraction <<n, d>> with d > 0.
\* A NaN or infinite d0 or dd gives a t that fails the comparison.
QuadExtrema(a0, a1, a2) ==
    LET d0 == FSub(a1, a0)
        d1 == FSub(a2, a1)
        dd == FSub(d1, d0)
        n == IF dd < 0 THEN d0 ELSE -d0
        d == IF dd < 0 THEN -dd ELSE dd
    IN  IF IsFiniteF(d0) /\ IsFiniteF(dd) /\ dd # 0 /\ 0 < n /\ n < d
        THEN { <<n, d>> } ELSE {}

\* A NaN or infinite term of a sum with positive weights; a finite term
\* leaves such a sum as it is.
SpecialTerm(a) == IF IsFiniteF(a) THEN 0 ELSE a

\* One coordinate of QuadBez::eval(t), t = n/d in (0, 1):
\* a0 * (mt * mt) + (a1 * (mt * 2.0) + a2 * t) * t with mt = 1.0 - t.
QuadEval(a0, a1, a2, t) ==
    LET n == t[1]
        d == t[2]
    IN  IF IsFiniteF(a0) /\ IsFiniteF(a1) /\ IsFiniteF(a2)
        THEN (a0 * (d - n) * (d - n) + 2 * a1 * n * (d - n) + a2 * n * n) \div (d * d)
        ELSE FAdd(SpecialTerm(a0), FAdd(SpecialTerm(a1), SpecialTerm(a2)))

\* A fraction n/d with a positive denominator.
Frac(n, d) == IF d < 0 THEN <<-n, -d>> ELSE <<n, d>>

\* The integer square root.
ISqrt(n) == CHOOSE r \in 0..n : r * r <= n /\ n < (r + 1) * (r + 1)

\* kurbo::common::solve_quadratic(c0, c1, c2): the finite roots of
\* c0 + c1 x + c2 x^2 as exact fractions. With sc0 = c0 / c2 and
\* sc1 = c1 / c2 not both finite (c2 zero or NaN, or c0 or c1 not finite) the
\* equation is taken as linear: the root -c0 / c1 when that is finite, 0.0
\* when c0 and c1 are both 0.0. Otherwise the discriminant decides: no root,
\* one root -sc1 / 2, or the two roots.
SolveQuadratic(c0, c1, c2) ==
    IF c2 = 0 \/ IsNanF(c2) \/ ~IsFiniteF(c0) \/ ~IsFiniteF(c1)
    THEN IF IsFiniteF(c0) /\ IsFiniteF(c1) /\ c1 # 0 THEN { Frac(-c0, c1) }
         ELSE IF IsFiniteF(c0) /\ IsInfF(c1) THEN { <<0, 1>> }
         ELSE IF c0 = 0 /\ c1 = 0 THEN { <<0, 1>> }
         ELSE {}
    ELSE IF IsInfF(c2) THEN { <<0, 1>> }
    ELSE LET arg == c1 * c1 - 4 * c0 * c2
         IN  IF arg < 0 THEN {}
             ELSE IF arg = 0 THEN { Frac(-c1, 2 * c2) }
             ELSE { Frac(-c1 - ISqrt(arg), 2 * c2), Frac(-c1 + ISqrt(arg), 2 * c2) }

\* One coordinate of CubicBez::extrema: the roots t of the derivative,
\* solve_quadratic(c, b, a) with a = d0 - 2 d1 + d2, b = 2 (d1 - d0), c = d0,
\* that have 0.0 < t < 1.0.
CubicExtrema(a0, a1, a2, a3) ==
    LET d0 == FSub(a1, a0)
        d1 == FSub(a2, a1)
        d2 == FSub(a3, a2)
        a == FAdd(FSub(d0, FMul(Real(2), d1)), d2)
        b == FMul(Real(2), FSub(d1, d0))
        c == d0
    IN  { t \in SolveQuadratic(c, b, a) : 0 < t[1] /\ t[1] < t[2] }

\* One coordinate of CubicBez::eval(t), t = n/d in (0, 1):
\* a0 * (mt * mt * mt)
\*   + (a1 * (mt * mt * 3.0) + (a2 * (mt * 3.0) + a3 * t) * t) * t, mt = 1.0 - t.
CubicEval(a0, a1, a2, a3, t) ==
    LET n == t[1]
        d == t[2]
        m == t[2] - t[1]
    IN  IF IsFiniteF(a0) /\ IsFiniteF(a1) /\ IsFiniteF(a2) /\ IsFiniteF(a3)
        THEN (a0 * m * m * m + 3 * a1 * n * m * m + 3 * a2 * n * n * m + a3 * n * n * n)
                \div (d * d * d)
        ELSE FAdd(FAdd(SpecialTerm(a0), SpecialTerm(a1)),
                  FAdd(SpecialTerm(a2), SpecialTerm(a3)))

\* The points CubicBez::eval gives at the extrema of a cubic segment.
CubicExtremaPoints(seg) ==
    { Point(CubicEval(seg.p0.x, seg.p1.x, seg.p2.x, seg.p3.x, t),
            CubicEval(seg.p0.y, seg.p1.y, seg.p2.y, seg.p3.y, t)) :
        t \in CubicExtrema(seg.p0.x, seg.p1.x, seg.p2.x, seg.p3.x)
               \cup CubicExtrema(seg.p0.y, seg.p1.y, seg.p2.y, seg.p3.y) }

\* Rect::union_pt
RectUnionPt(r, p) ==
    Rect(FMin(r.x0, p.x), FMin(r.y0, p.y), FMax(r.x1, p.x), FMax(r.y1, p.y))

\* The points QuadBez::eval gives at the extrema of a quadratic segment.
QuadExtremaPoints(seg) ==
    { Point(QuadEval(seg.p0.x, seg.p1.x, seg.p2.x, t),
            QuadEval(seg.p0.y, seg.p1.y, seg.p2.y, t)) :
        t \in QuadExtrema(seg.p0.x, seg.p1.x, seg.p2.x)
               \cup QuadExtrema(seg.p0.y, seg.p1.y, seg.p2.y) }

RECURSIVE UnionPts(_, _)
UnionPts(bbox, ps) ==
    IF ps = {} THEN bbox
    ELSE LET p == CHOOSE q \in ps : TRUE
         IN  UnionPts(RectUnionPt(bbox, p), ps \ {p})

\* Mutation of the bounding box of a segment: the box of the control polygon.
SegControlBox(seg) ==
    CASE seg.seg = "Line"  -> RectFromPoints(seg.p0, seg.p1)
      [] seg.seg = "Quad"  -> UnionPts(RectFromPoints(seg.p0, seg.p2), {seg.p1})
      [] seg.seg = "Cubic" -> UnionPts(RectFromPoints(seg.p0, seg.p3), {seg.p1, seg.p2})

\* ParamCurveExtrema::bounding_box of a segment: the box of its end points,
\* extended by the curve's points at its extrema (a line has none).
SegBoundingBox(seg) ==
    CASE seg.seg = "Line"  -> RectFromPoints(seg.p0, seg.p1)
      [] seg.seg = "Quad"  -> UnionPts(RectFromPoints(seg.p0, seg.p2), QuadExtremaPoints(seg))
      [] seg.seg = "Cubic" -> UnionPts(RectFromPoints(seg.p0, seg.p3), CubicExtremaPoints(seg))

RECURSIVE UnionSegs(_, _, _)
UnionSegs(segs, i, bbox) ==
    IF i > Len(segs) THEN bbox
    ELSE UnionSegs(segs, i + 1, RectUnion(bbox, SegBoundingBox(segs[i])))

\* <BezPath as Shape>::bounding_box: union of the segments' boxes, Rect::ZERO
\* when there is no segment.
BezPathBoundingBox(path) ==
    LET segs == Segments(path)
    IN  IF Len(segs) = 0 THEN Rect(Zero, Zero, Zero, Zero)
        ELSE UnionSegs(segs, 2, SegBoundingBox(segs[1]))

(* ----------------------------- ClipGeometry --------------------------- *)

GeomRect(r) == [kind |-> "Rect", rect |-> r]
GeomRoundedRect(rr) == [kind |-> "RoundedRect", rr |-> rr]
GeomPath(p) == [kind |-> "Path", path |-> p]

GeomIsFinite(g) ==
    CASE g.kind = "Rect" -> RectIsFinite(g.rect)
      [] g.kind = "RoundedRect" -> RoundedRectIsFinite(g.rr)
      [] g.kind = "Path" -> BezPathIsFinite(g.path)

\* Mutation of ClipGeometry::is_nan: it answers "not finite".
GeomIsNanAsNotFinite(g) == ~GeomIsFinite(g)

GeomIsNan(g) ==
    CASE g.kind = "Rect" -> RectIsNan(g.rect)
      [] g.kind = "RoundedRect" -> RoundedRectIsNan(g.rr)
      [] g.kind = "Path" -> BezPathIsNan(g.path)

\* Mutation of ClipGeometry::bounds: the rectangle of a Rect is normalised.
GeomBoundsNormalised(g) ==
    LET bounds == CASE g.kind = "Rect" -> RectAbs(g.rect)
                    [] g.kind = "RoundedRect" -> RoundedRectBoundingBox(g.rr)
                    [] g.kind = "Path" -> BezPathBoundingBox(g.path)
    IN  IF RectIsFinite(bounds) THEN Some(bounds) ELSE None

\* Mutation of ClipGeometry::bounds: the result is not tested for finiteness.
GeomBoundsUnchecked(g) ==
    Some(CASE g.kind = "Rect" -> g.rect
           [] g.kind = "RoundedRect" -> RoundedRectBoundingBox(g.rr)
           [] g.kind = "Path" -> BezPathBoundingBox(g.path))

GeomBounds(g) ==
    LET bounds == CASE g.kind = "Rect" -> g.rect
                    [] g.kind = "RoundedRect" -> RoundedRectBoundingBox(g.rr)
                    [] g.kind = "Path" -> BezPathBoundingBox(g.path)
    IN  IF RectIsFinite(bounds) THEN Some(bounds) ELSE None

\* Rect::path_elements: the four corners and a ClosePath; the tolerance is
\* not used.
RectToPath(r, tolerance) ==
    << MoveTo(Point(r.x0, r.y0)), LineTo(Point(r.x1, r.y0)), LineTo(Point(r.x1, r.y1)),
       LineTo(Point(r.x0, r.y1)), ClosePath >>

\* RoundedRect::to_path: the outline with its corner arcs approximated to
\* the tolerance, kept as a term of the rounded rectangle and the tolerance.
RoundedRectToPath(rr, tolerance) == <<"RoundedRectPath", rr, tolerance>>

\* Mutation of ClipGeometry::to_path: with a tolerance that is not positive
\* the curves of a stored path are replaced by their chords.
GeomToPathFlattened(g, tolerance) ==
    CASE g.kind = "Rect" -> RectToPath(g.rect, tolerance)
      [] g.kind = "RoundedRect" -> RoundedRectToPath(g.rr, tolerance)
      [] g.kind = "Path" ->
            IF IsFiniteF(tolerance) /\ tolerance > 0 THEN g.path
            ELSE [i \in 1..Len(g.path) |->
                    IF g.path[i].el \in {"QuadTo", "CurveTo"}
                    THEN LineTo(g.path[i].p) ELSE g.path[i]]

\* ClipGeometry::to_path
GeomToPath(g, tolerance) ==
    CASE g.kind = "Rect" -> RectToPath(g.rect, tolerance)
      [] g.kind = "RoundedRect" -> RoundedRectToPath(g.rr, tolerance)
      [] g.kind = "Path" -> g.path

\* derive(Clone): every field is copied.
GeomClone(g) == g

PointEq(p, q) == FEq(p.x, q.x) /\ FEq(p.y, q.y)
RectEq(r, q) == FEq(r.x0, q.x0) /\ FEq(r.y0, q.y0) /\ FEq(r.x1, q.x1) /\ FEq(r.y1, q.y1)
RadiiEq(r, q) ==
    /\ FEq(r.top_left, q.top_left)
    /\ FEq(r.top_right, q.top_right)
    /\ FEq(r.bottom_right, q.bottom_right)
    /\ FEq(r.bottom_left, q.bottom_left)
RoundedRectEq(a, b) == RectEq(a.rect, b.rect) /\ RadiiEq(a.radii, b.radii)

PathElEq(e, f) ==
    /\ e.el = f.el
    /\ CASE e.el = "ClosePath" -> TRUE
         [] e.el = "QuadTo" -> PointEq(e.p1, f.p1) /\ PointEq(e.p, f.p)
         [] e.el = "CurveTo" -> PointEq(e.p1, f.p1) /\ PointEq(e.p2, f.p2) /\ PointEq(e.p, f.p)
         [] OTHER -> PointEq(e.p, f.p)

\* PartialEq of Vec<PathEl>
BezPathEq(p, q) == Len(p) = Len(q) /\ \A i \in 1..Len(p) : PathElEq(p[i], q[i])

\* derive(PartialEq) for ClipGeometry: the same variant with equal contents.
GeomEq(a, b) ==
    /\ a.kind = b.kind
    /\ CASE a.kind = "Rect" -> RectEq(a.rect, b.rect)
         [] a.kind = "RoundedRect" -> RoundedRectEq(a.rr, b.rr)
         [] a.kind = "Path" -> BezPathEq(a.path, b.path)

(* -------------------------------- Stroke ------------------------------ *)

\* kurbo::Stroke as Stroke::new(width).with_miter_limit(miter_limit)
\* .with_dashes(dash_offset, dash_pattern) builds it: round join and caps.
Stroke(width, miter_limit, dash_pattern, dash_offset) ==
    [width |-> width, join |-> "Round", miter_limit |-> miter_limit,
     start_cap |-> "Round", end_cap |-> "Round",
     dash_pattern |-> dash_pattern, dash_offset |-> dash_offset]

\* Mutations of stroke_is_finite: the dash pattern, or the dash offset, is
\* not looked at.
stroke_is_finite_no_dashes(stroke) ==
    /\ IsFiniteF(stroke.width)
    /\ IsFiniteF(stroke.miter_limit)
    /\ IsFiniteF(stroke.dash_offset)

stroke_is_finite_no_offset(stroke) ==
    /\ IsFiniteF(stroke.width)
    /\ IsFiniteF(stroke.miter_limit)
    /\ \A i \in 1..Len(stroke.dash_pattern) : IsFiniteF(stroke.dash_pattern[i])

\* Mutation of stroke_is_finite: a NaN width is let through.
stroke_is_finite_nan_width(stroke) ==
    /\ IsFiniteF(stroke.width) \/ IsNanF(stroke.width)
    /\ IsFiniteF(stroke.miter_limit)
    /\ IsFiniteF(stroke.dash_offset)
    /\ \A i \in 1..Len(stroke.dash_pattern) : IsFiniteF(stroke.dash_pattern[i])

stroke_is_finite(stroke) ==
    /\ IsFiniteF(stroke.width)
    /\ IsFiniteF(stroke.miter_limit)
    /\ IsFiniteF(stroke.dash_offset)
    /\ \A i \in 1..Len(stroke.dash_pattern) : IsFiniteF(stroke.dash_pattern[i])

\* Mutation of stroke_is_nan: the fields are combined with AND.
stroke_is_nan_all(stroke) ==
    /\ IsNanF(stroke.width)
    /\ IsNanF(stroke.miter_limit)
    /\ IsNanF(stroke.dash_offset)
    /\ \A i \in 1..Len(stroke.dash_pattern) : IsNanF(stroke.dash_pattern[i])

stroke_is_nan(stroke) ==
    \/ IsNanF(stroke.width)
    \/ IsNanF(stroke.miter_limit)
    \/ IsNanF(stroke.dash_offset)
    \/ \E i \in 1..Len(stroke.dash_pattern) : IsNanF(stroke.dash_pattern[i])

\* Mutation of the outset: half the width, without the miter factor.
stroke_outset_no_miter(stroke) == FMul(Half, FAbs(stroke.width))

\* Mutation of the outset: the width is used with its sign.
stroke_outset_signed_width(stroke) ==
    FMul(FMul(Half, stroke.width), FMax(FAbs(stroke.miter_limit), One))

\* Mutation of the outset: the miter factor is not clamped below at 1.
stroke_outset_unclamped(stroke) ==
    FMul(FMul(Half, FAbs(stroke.width)), FAbs(stroke.miter_limit))

\* kurbo's enum Join and enum Cap
Joins == {"Bevel", "Miter", "Round"}
Caps == {"Butt", "Square", "Round"}

\* Mutation of the outset: the miter factor is applied to miter joins only.
stroke_outset_miter_join_only(stroke) ==
    FMul(FMul(Half, FAbs(stroke.width)),
         IF stroke.join = "Miter" THEN FMax(FAbs(stroke.miter_limit), One) ELSE One)

\* let outset = 0.5 * stroke.width.abs() * stroke.miter_limit.abs().max(1.0)
stroke_outset(stroke) ==
    FMul(FMul(Half, FAbs(stroke.width)), FMax(FAbs(stroke.miter_limit), One))

stroke_bounds(bounds, stroke) ==
    IF ~stroke_is_finite(stroke) THEN None
    ELSE LET outset == stroke_outset(stroke)
             expanded == RectInflate(bounds, outset, outset)
         IN  IF RectIsFinite(expanded) THEN Some(expanded) ELSE None

(* --------------------------------- Clip ------------------------------- *)

ClipFill(transform, shape, fill_rule) ==
    [kind |-> "Fill", transform |-> transform, shape |-> shape, fill_rule |-> fill_rule]

ClipStroke(transform, shape, stroke) ==
    [kind |-> "Stroke", transform |-> transform, shape |-> shape, stroke |-> stroke]

\* Mutation of the final filter: the transformed rectangle is returned as is.
FilterNothing(o) == o

\* Option::filter(|bounds| bounds.is_finite())
FilterFinite(o) == IF IsSome(o) /\ RectIsFinite(Unwrap(o)) THEN o ELSE None

\* Mutation of bounds(): the Stroke arm inflates the transformed shape bounds
\* by the outset, instead of transforming the inflated bounds.
ClipBoundsOutsetAfterTransform(c) ==
    LET sb == GeomBounds(c.shape)
        tb == IF IsSome(sb) THEN Some(TransformRectBbox(c.transform, Unwrap(sb))) ELSE None
        eb == IF c.kind = "Fill" THEN tb
              ELSE IF IsSome(tb) THEN stroke_bounds(Unwrap(tb), c.stroke) ELSE None
    IN  FilterFinite(eb)

\* Mutation of bounds(): a Fill clip with the EvenOdd rule has no bounds.
ClipBoundsNonZeroOnly(c) ==
    LET sb == GeomBounds(c.shape)
        eb == IF c.kind = "Fill"
              THEN (IF c.fill_rule = "EvenOdd" THEN None ELSE sb)
              ELSE IF IsSome(sb) THEN stroke_bounds(Unwrap(sb), c.stroke) ELSE None
        tb == IF IsSome(eb) THEN Some(TransformRectBbox(c.transform, Unwrap(eb))) ELSE None
    IN  FilterFinite(tb)

\* Mutation of bounds(): under the identity transform the rectangle is
\* returned without going through transform_rect_bbox.
ClipBoundsIdentityShortcut(c) ==
    LET sb == GeomBounds(c.shape)
        eb == IF c.kind = "Fill" THEN sb
              ELSE IF IsSome(sb) THEN stroke_bounds(Unwrap(sb), c.stroke) ELSE None
        tb == IF IsSome(eb) /\ c.transform # <<One, Zero, Zero, One, Zero, Zero>>
              THEN Some(TransformRectBbox(c.transform, Unwrap(eb))) ELSE eb
    IN  FilterFinite(tb)

\* Mutation of bounds(): the Fill arm does not apply the transform.
ClipBoundsFillUntransformed(c) ==
    LET sb == GeomBounds(c.shape)
        eb == IF c.kind = "Fill" THEN sb
              ELSE IF IsSome(sb) THEN stroke_bounds(Unwrap(sb), c.stroke) ELSE None
        tb == IF IsSome(eb) /\ c.kind = "Stroke"
              THEN Some(TransformRectBbox(c.transform, Unwrap(eb))) ELSE eb
    IN  FilterFinite(tb)

ClipBounds(c) ==
    LET sb == GeomBounds(c.shape)
        eb == IF c.kind = "Fill" THEN sb
              ELSE IF IsSome(sb) THEN stroke_bounds(Unwrap(sb), c.stroke) ELSE None
        tb == IF IsSome(eb) THEN Some(TransformRectBbox(c.transform, Unwrap(eb))) ELSE None
    IN  FilterFinite(tb)

\* Mutation of is_finite(): the Fill arm looks at the transform only.
ClipIsFiniteFillTransformOnly(c) ==
    IF c.kind = "Fill"
    THEN AffineIsFinite(c.transform)
    ELSE AffineIsFinite(c.transform) /\ GeomIsFinite(c.shape) /\ stroke_is_finite(c.stroke)

ClipIsFinite(c) ==
    IF c.kind = "Fill"
    THEN AffineIsFinite(c.transform) /\ GeomIsFinite(c.shape)
    ELSE AffineIsFinite(c.transform) /\ GeomIsFinite(c.shape) /\ stroke_is_finite(c.stroke)

\* Mutation of is_nan(): the transform is not looked at.
ClipIsNanNoTransform(c) ==
    IF c.kind = "Fill"
    THEN GeomIsNan(c.shape)
    ELSE GeomIsNan(c.shape) \/ stroke_is_nan(c.stroke)

ClipIsNan(c) ==
    IF c.kind = "Fill"
    THEN AffineIsNan(c.transform) \/ GeomIsNan(c.shape)
    ELSE AffineIsNan(c.transform) \/ GeomIsNan(c.shape) \/ stroke_is_nan(c.stroke)

(* ------------------------------- inputs ------------------------------- *)

IDENTITY == Affine(One, Zero, Zero, One, Zero, Zero)
Translate(dx, dy) == Affine(One, Zero, Zero, One, dx, dy)
Scale(s) == Affine(s, Zero, Zero, s, Zero, Zero)
ScaleNonUniform(sx, sy) == Affine(sx, Zero, Zero, sy, Zero, Zero)
\* Affine::rotate of a quarter turn, and a shear along x
QuarterTurn == Affine(Zero, One, Real(-1), Zero, Zero, Zero)
ShearX == Affine(One, Zero, One, One, Zero, Zero)

FiniteTransforms ==
    { IDENTITY, Translate(Real(5), Real(-2)), Translate(Real(10), Real(-4)),
      Scale(Real(2)), ScaleNonUniform(Real(-1), One), QuarterTurn, ShearX,
      Affine(Real(-3), One, Real(2), Real(-1), One, Zero) }

\* A transform with one coefficient replaced by NaN or an infinity.
NonFiniteTransforms ==
    { [t EXCEPT ![i] = v] :
        t \in {IDENTITY, Translate(Real(5), Real(-2)), QuarterTurn},
        i \in 1..6, v \in Specials }

Transforms == FiniteTransforms \cup NonFiniteTransforms

FewTransforms ==
    { IDENTITY, Translate(Real(5), Real(-2)), Scale(Real(2)),
      Affine(NaN, Zero, Zero, One, Zero, Zero),
      Affine(One, Zero, Zero, NInf, Zero, Zero) }

\* Rectangles with whole coordinates: ordered, inverted, empty, and large
\* enough for a translation or an outset to overflow.
FiniteRects ==
    { Rect(x0, y0, x1, y1) :
        x0 \in {Zero, Real(2)}, y0 \in {Zero, Real(3)},
        x1 \in {Zero, Real(2), Real(12)}, y1 \in {Zero, Real(3)} }

NonFiniteRects ==
    { [Rect(Zero, Zero, Real(2), Real(3)) EXCEPT ![k] = v] :
        k \in {"x0", "y0", "x1", "y1"}, v \in Specials }
    \cup { Rect(NaN, NaN, NaN, NaN), Rect(PInf, PInf, PInf, PInf) }

RoundedRects ==
    { RoundedRectFromRect(r, RadiiFromSingle(q)) :
        r \in { Rect(Zero, Zero, Real(2), Real(3)), Rect(Real(2), Real(3), Zero, Zero),
                Rect(Real(-1), Real(-2), Real(3), Real(4)) } \cup NonFiniteRects,
        q \in {Zero, One, Real(8), NaN, PInf} }

PathPoints ==
    { Point(Zero, Zero), Point(Real(2), Real(3)), Point(NaN, One), Point(One, PInf) }

\* Quadratic elements: a control point off the chord, or NaN, or infinite.
QuadEls ==
    { QuadTo(Point(One, Real(2)), Point(Real(2), Zero)),
      QuadTo(Point(NaN, One), Point(Real(2), Zero)),
      QuadTo(Point(One, PInf), Point(Zero, Zero)) }

\* Cubic elements: one extremum in y, two extrema in y, and a NaN end point
\* that leaves the derivative in x linear.
CubicEls ==
    { CurveTo(Point(Zero, Real(2)), Point(Real(2), Real(2)), Point(Real(2), Zero)),
      CurveTo(Point(Real(2), Real(3)), Point(Real(4), Real(-2)), Point(Real(6), One)),
      CurveTo(Point(Real(2), Zero), Point(One, Zero), Point(NaN, Zero)) }

\* Paths of one cubic segment from the origin.
CubicPaths == { <<MoveTo(Point(Zero, Zero)), e>> : e \in CubicEls }

PathEls == {MoveTo(p) : p \in PathPoints} \cup {LineTo(p) : p \in PathPoints}
           \cup QuadEls \cup {ClosePath}

\* The curve points the model computes for a quadratic segment are exact:
\* every division of QuadEval leaves no remainder.
QuadIsExact(seg) ==
    \A t \in QuadExtrema(seg.p0.x, seg.p1.x, seg.p2.x)
              \cup QuadExtrema(seg.p0.y, seg.p1.y, seg.p2.y) :
       \A a \in { <<seg.p0.x, seg.p1.x, seg.p2.x>>, <<seg.p0.y, seg.p1.y, seg.p2.y>> } :
          (IsFiniteF(a[1]) /\ IsFiniteF(a[2]) /\ IsFiniteF(a[3])) =>
             (a[1] * (t[2] - t[1]) * (t[2] - t[1]) + 2 * a[2] * t[1] * (t[2] - t[1])
              + a[3] * t[1] * t[1]) % (t[2] * t[2]) = 0

\* The same for a cubic segment, whose extrema moreover are rational: the
\* discriminant of the derivative is a square.
CubicIsExact(seg) ==
    LET xs == <<seg.p0.x, seg.p1.x, seg.p2.x, seg.p3.x>>
        ys == <<seg.p0.y, seg.p1.y, seg.p2.y, seg.p3.y>>
    IN  /\ \A a \in {xs, ys} :
              (\A i \in 1..4 : IsFiniteF(a[i])) =>
                 LET c0 == a[2] - a[1]
                     c1 == 2 * ((a[3] - a[2]) - (a[2] - a[1]))
                     c2 == (a[2] - a[1]) - 2 * (a[3] - a[2]) + (a[4] - a[3])
                     arg == c1 * c1 - 4 * c0 * c2
                 IN  arg > 0 => ISqrt(arg) * ISqrt(arg) = arg
        /\ \A t \in CubicExtrema(xs[1], xs[2], xs[3], xs[4])
                     \cup CubicExtrema(ys[1], ys[2], ys[3], ys[4]) :
              \A a \in {xs, ys} :
                 (\A i \in 1..4 : IsFiniteF(a[i])) =>
                    LET n == t[1]
                        m == t[2] - t[1]
                    IN  (a[1] * m * m * m + 3 * a[2] * n * m * m
                         + 3 * a[3] * n * n * m + a[4] * n * n * n)
                           % (t[2] * t[2] * t[2]) = 0

PathIsExact(path) ==
    \A i \in 1..Len(Segments(path)) :
       /\ Segments(path)[i].seg = "Quad" => QuadIsExact(Segments(path)[i])
       /\ Segments(path)[i].seg = "Cubic" => CubicIsExact(Segments(path)[i])

\* Element lists of at most MaxPathLen elements; a non-empty one begins with
\* a MoveTo.
RECURSIVE PathsOfLen(_)
PathsOfLen(n) ==
    IF n = 0 THEN { << >> }
    ELSE IF n = 1 THEN { <<MoveTo(p)>> : p \in PathPoints }
    ELSE { Append(q, e) : q \in PathsOfLen(n - 1), e \in PathEls \ {MoveTo(p) : p \in PathPoints} }
         \cup { Append(q, MoveTo(Point(Real(2), Real(3)))) : q \in PathsOfLen(n - 1) }

BezPaths ==
    { p \in UNION { PathsOfLen(n) : n \in 0..MaxPathLen } \cup CubicPaths : PathIsExact(p) }

RectShapes == { GeomRect(r) : r \in FiniteRects \cup NonFiniteRects }
RoundedShapes == { GeomRoundedRect(rr) : rr \in RoundedRects }
PathShapes == { GeomPath(p) : p \in BezPaths }
Shapes == RectShapes \cup RoundedShapes \cup PathShapes

\* The transforms and strokes the paths are clipped with.
PathTransforms ==
    { IDENTITY, Translate(Real(5), Real(-2)), Affine(One, Zero, Zero, One, NaN, Zero) }
PathStrokes == { Stroke(Real(2), Real(4), << >>, Zero) }

\* The tolerances to_path is called with: positive, zero, negative, NaN.
Tolerances == { One, Zero, Real(-1), NaN }

\* The geometry g with F applied to every coordinate of its rectangle or
\* of its path's points.
MapCoords(F(_), g) ==
    CASE g.kind = "Rect" ->
            GeomRect(Rect(F(g.rect.x0), F(g.rect.y0), F(g.rect.x1), F(g.rect.y1)))
      [] g.kind = "RoundedRect" ->
            GeomRoundedRect([rect |-> Rect(F(g.rr.rect.x0), F(g.rr.rect.y0),
                                           F(g.rr.rect.x1), F(g.rr.rect.y1)),
                             radii |-> g.rr.radii])
      [] g.kind = "Path" ->
            GeomPath([i \in 1..Len(g.path) |->
                CASE g.path[i].el = "ClosePath" -> ClosePath
                  [] g.path[i].el = "QuadTo" ->
                        QuadTo(Point(F(g.path[i].p1.x), F(g.path[i].p1.y)),
                               Point(F(g.path[i].p.x), F(g.path[i].p.y)))
                  [] g.path[i].el = "CurveTo" ->
                        CurveTo(Point(F(g.path[i].p1.x), F(g.path[i].p1.y)),
                                Point(F(g.path[i].p2.x), F(g.path[i].p2.y)),
                                Point(F(g.path[i].p.x), F(g.path[i].p.y)))
                  [] g.path[i].el = "MoveTo" ->
                        MoveTo(Point(F(g.path[i].p.x), F(g.path[i].p.y)))
                  [] OTHER -> LineTo(Point(F(g.path[i].p.x), F(g.path[i].p.y)))])

FlipZero(a) == IF a = Zero THEN NegZero ELSE a

\* The geometry g with the sign of every 0.0 coordinate flipped.
ZeroFlipped(g) == MapCoords(FlipZero, g)

\* The values a geometry g is compared with: its clone, itself up to the
\* sign of its zeros, and a fixed rectangle.
EqArgs(g) ==
    { GeomClone(g), ZeroFlipped(g), GeomRect(Rect(Zero, Zero, Real(2), Real(3))) }

FewShapes ==
    { GeomRect(Rect(Zero, Zero, Real(2), Real(3))),
      GeomRect(Rect(Zero, Zero, Zero, Zero)),
      GeomRect(Rect(Zero, Zero, NaN, One)),
      GeomRoundedRect(RoundedRectFromRect(Rect(Real(-1), Real(-1), One, One),
                                          RadiiFromSingle(One))),
      GeomPath(<<MoveTo(Point(Zero, Zero)), LineTo(Point(Real(2), Real(3)))>>),
      GeomPath(<<MoveTo(Point(Zero, Zero)), LineTo(Point(PInf, One))>>) }

\* Dash patterns of at most MaxDash entries.
RECURSIVE DashesOfLen(_)
DashesOfLen(n) ==
    IF n = 0 THEN { << >> }
    ELSE { Append(d, v) : d \in DashesOfLen(n - 1), v \in {One, NaN, PInf} }

DashPatterns == UNION { DashesOfLen(n) : n \in 0..MaxDash }

\* Strokes that vary width and miter limit, and strokes that vary the dashes.
WidthStrokes ==
    { Stroke(w, m, << >>, Zero) :
        w \in {Zero, Real(2), Real(-2), Real(3), Real(8), NaN, PInf},
        m \in {Zero, One, Real(4), Real(-4), NaN, NInf} }

DashStrokes ==
    { Stroke(Real(2), Real(4), d, o) : d \in DashPatterns, o \in {Zero, NaN, PInf} }

Strokes == WidthStrokes \cup DashStrokes

FewStrokes ==
    { Stroke(Real(2), Real(4), << >>, Zero), Stroke(Real(3), One, <<One>>, One),
      Stroke(Real(2), Real(4), <<One, NaN>>, Zero), Stroke(PInf, Real(4), << >>, Zero) }

\* Strokes that vary the join and the caps (Stroke::with_join, with_caps,
\* with_start_cap, with_end_cap).
JoinStrokes ==
    { [Stroke(Real(2), Real(4), << >>, Zero)
         EXCEPT !.join = j, !.start_cap = sc, !.end_cap = ec] :
        j \in Joins, sc \in Caps, ec \in Caps }

FillRules == {"NonZero", "EvenOdd"}

\* The clips a caller constructs: every transform with the rectangles, every
\* shape with a few transforms, every stroke with a few transforms and shapes.
IsClipInput(c) ==
    \/ \E t \in Transforms, g \in RectShapes, f \in FillRules : c = ClipFill(t, g, f)
    \/ \E t \in Transforms, g \in RectShapes, s \in FewStrokes : c = ClipStroke(t, g, s)
    \/ \E t \in FewTransforms, g \in RoundedShapes, f \in FillRules : c = ClipFill(t, g, f)
    \/ \E t \in FewTransforms, g \in RoundedShapes, s \in FewStrokes : c = ClipStroke(t, g, s)
    \/ \E t \in PathTransforms, g \in PathShapes : c = ClipFill(t, g, "NonZero")
    \/ \E g \in PathShapes, s \in PathStrokes : c = ClipStroke(IDENTITY, g, s)
    \/ \E t \in FewTransforms, g \in FewShapes, s \in Strokes : c = ClipStroke(t, g, s)
    \/ \E t \in FiniteTransforms, r \in FiniteRects, s \in WidthStrokes :
          c = ClipStroke(t, GeomRect(r), s)
    \/ \E s \in JoinStrokes :
          c = ClipStroke(IDENTITY, GeomRect(Rect(Zero, Zero, Real(2), Real(3))), s)

(* --------------------------------- Blob ------------------------------- *)

\* Mutation of AtomicU64::fetch_add: the stored value is not advanced.
FetchAddLost(counter, val) == [old |-> counter, new |-> counter]

\* AtomicU64::fetch_add(val): one atomic step that returns the previous
\* value and stores the wrapped sum.
FetchAdd(counter, val) == [old |-> counter, new |-> (counter + val) % Modulus]

\* Blob { data, id } and WeakBlob { data, id }: data names the allocation
\* the Arc or Weak points to.
BlobRec(data, id) == [data |-> data, id |-> id]

\* A slot or a thread that holds no value.
Empty == [empty |-> TRUE]

\* Mutation of Weak::upgrade: it succeeds whatever the strong count.
WeakUpgradeAlways(count) == TRUE

\* Weak::upgrade succeeds exactly when the strong count is not zero.
WeakUpgradeSucceeds(count) == count > 0

\* The threads that call Blob::new, the allocations Arc::new makes, and the
\* places that hold a Blob or a WeakBlob.
Threads == {"t1", "t2"}
Allocs == 1..2
\* The numbers of Arcs to one allocation that the caller holds outside any
\* Blob, and the ids the caller gives to from_raw_parts.
ExtCounts == 0..1
RawIds == {0}
BlobSlots == {"b1", "b2"}
WeakSlots == {"w1"}

\* The most calls of Blob::new: one more than the counter has values, so
\* that the counter wraps.
MaxNews == Modulus + 1

(* ------------------------------ ImageFormat --------------------------- *)

\* The pointer widths the crate builds for: blob.rs needs AtomicU64, which
\* no target with a usize narrower than 32 bits has.
Targets == {"32", "64"}

\* usize::MAX: as wide as u32 on a 32-bit target, twice as wide on a 64-bit
\* one.
UsizeMax(t) == IF t = "32" THEN U32Max ELSE (U32Max + 1) * (U32Max + 1) - 1

\* width as usize: lossless, usize is at least as wide as u32.
AsUsize(t, n) == n % (UsizeMax(t) + 1)

\* Mutation of usize::checked_mul: the product wraps.
WrappingMul(t, a, b) == Some((a * b) % (UsizeMax(t) + 1))

\* usize::checked_mul
CheckedMul(t, a, b) == IF a * b > UsizeMax(t) THEN None ELSE Some(a * b)

ImageFormats == {"Rgba8", "Bgra8"}

\* ImageFormat::size_in_bytes: 4.checked_mul(width as usize)
\* .and_then(|x| x.checked_mul(height as usize)), the same for both formats.
SizeInBytes(t, format, width, height) ==
    CASE format \in {"Rgba8", "Bgra8"} ->
            LET x == CheckedMul(t, 4, AsUsize(t, width))
            IN  IF IsSome(x) THEN CheckedMul(t, Unwrap(x), AsUsize(t, height)) ELSE None

(* ---------------------------- state machine --------------------------- *)

VARIABLES
    target, \* the pointer width of the build
    clip,   \* the Clip value the queries are made on (&self)
    op,     \* the last query made: "new" right after construction
    arg,    \* the argument of that query, <<"Unit">> when it takes none
    ret,    \* what that query returned
    counter,  \* ID_COUNTER
    newCalls, \* the number of calls of Blob::new that have taken an id
    issued,   \* the ids those calls have taken
    pending,  \* per thread: the Blob under construction inside Blob::new
    made,     \* per allocation: Arc::new has made it
    strong,   \* per allocation: the Arc strong count
    ext,      \* per allocation: the Arcs the caller holds outside any Blob
    blobs,    \* per slot: the Blob it holds
    weaks     \* per slot: the WeakBlob it holds

blobVars == <<counter, newCalls, issued, pending, made, strong, ext, blobs, weaks>>

vars == <<target, clip, op, arg, ret, counter, newCalls, issued, pending, made, strong, ext, blobs, weaks>>

\* No blob has been made and the id counter is at its initial value.
NoBlobs ==
    /\ counter = 0
    /\ newCalls = 0
    /\ issued = {}
    /\ pending = [t \in Threads |-> Empty]
    /\ made = [a \in Allocs |-> FALSE]
    /\ strong = [a \in Allocs |-> 0]
    /\ ext = [a \in Allocs |-> 0]
    /\ blobs = [h \in BlobSlots |-> Empty]
    /\ weaks = [w \in WeakSlots |-> Empty]

Unit == <<"Unit">>

Init ==
    /\ target = "64"
    /\ IsClipInput(clip)
    /\ op = "new"
    /\ arg = Unit
    /\ ret = Unit
    /\ NoBlobs

\* Mutation of Clip::bounds: the rectangle of a Rect shape is normalised in
\* place before it is used.
BoundsNormalisingInPlace ==
    /\ op' = "bounds"
    /\ arg' = Unit
    /\ ret' = ClipBounds(clip)
    /\ clip' = IF clip.shape.kind = "Rect"
               THEN [clip EXCEPT !.shape = GeomRect(RectAbs(clip.shape.rect))]
               ELSE clip
    /\ UNCHANGED <<target, blobVars>>

\* Clip::bounds(&self)
Bounds ==
    /\ op' = "bounds"
    /\ arg' = Unit
    /\ ret' = ClipBounds(clip)
    /\ UNCHANGED <<target, clip, blobVars>>

\* Clip::is_finite(&self)
IsFinite ==
    /\ op' = "is_finite"
    /\ arg' = Unit
    /\ ret' = ClipIsFinite(clip)
    /\ UNCHANGED <<target, clip, blobVars>>

\* Clip::is_nan(&self)
IsNan ==
    /\ op' = "is_nan"
    /\ arg' = Unit
    /\ ret' = ClipIsNan(clip)
    /\ UNCHANGED <<target, clip, blobVars>>

\* ClipGeometry::bounds(&self) on the clip's shape
ShapeBounds ==
    /\ op' = "shape.bounds"
    /\ arg' = Unit
    /\ ret' = GeomBounds(clip.shape)
    /\ UNCHANGED <<target, clip, blobVars>>

\* ClipGeometry::is_finite(&self) on the clip's shape
ShapeIsFinite ==
    /\ op' = "shape.is_finite"
    /\ arg' = Unit
    /\ ret' = GeomIsFinite(clip.shape)
    /\ UNCHANGED <<target, clip, blobVars>>

\* ClipGeometry::is_nan(&self) on the clip's shape
ShapeIsNan ==
    /\ op' = "shape.is_nan"
    /\ arg' = Unit
    /\ ret' = GeomIsNan(clip.shape)
    /\ UNCHANGED <<target, clip, blobVars>>

\* ClipGeometry::to_path(&self, tolerance) on the clip's shape
ShapeToPath ==
    \E tolerance \in Tolerances :
       /\ op' = "shape.to_path"
       /\ arg' = tolerance
       /\ ret' = GeomToPath(clip.shape, tolerance)
       /\ UNCHANGED <<target, clip, blobVars>>

\* <ClipGeometry as PartialEq>::eq(&self, other) on the clip's shape
ShapeEq ==
    \E other \in EqArgs(clip.shape) :
       /\ op' = "shape.eq"
       /\ arg' = other
       /\ ret' = GeomEq(clip.shape, other)
       /\ UNCHANGED <<target, clip, blobVars>>

Next ==
    \/ Bounds
    \/ IsFinite
    \/ IsNan
    \/ ShapeBounds
    \/ ShapeIsFinite
    \/ ShapeIsNan
    \/ ShapeToPath
    \/ ShapeEq

Spec == Init /\ [][Next]_vars

(* ------------------------- Blob state machine ------------------------- *)

InitBlob ==
    /\ target = "64"
    /\ clip = ClipFill(IDENTITY, GeomRect(Rect(Zero, Zero, Real(2), Real(3))), "NonZero")
    /\ op = "new"
    /\ arg = Unit
    /\ ret = Unit
    /\ NoBlobs

\* Arc::new(data): the caller makes an allocation and holds its one Arc.
ArcNew ==
    \E a \in Allocs :
       /\ ~made[a]
       /\ \A b \in Allocs : b < a => made[b]
       /\ made' = [made EXCEPT ![a] = TRUE]
       /\ strong' = [strong EXCEPT ![a] = 1]
       /\ ext' = [ext EXCEPT ![a] = 1]
       /\ op' = "Arc::new" /\ arg' = Unit /\ ret' = Unit
       /\ UNCHANGED <<target, clip, counter, newCalls, issued, pending, blobs, weaks>>

\* The caller drops an Arc it holds.
ArcDrop ==
    \E a \in Allocs :
       /\ ext[a] > 0
       /\ strong' = [strong EXCEPT ![a] = @ - 1]
       /\ ext' = [ext EXCEPT ![a] = @ - 1]
       /\ op' = "Arc::drop" /\ arg' = Unit /\ ret' = Unit
       /\ UNCHANGED <<target, clip, counter, newCalls, issued, pending, made, blobs, weaks>>

\* Blob::new(data), first step on thread t: the caller's Arc, or a clone of
\* it that Arc::clone makes for the call, is moved into the call, and
\* ID_COUNTER.fetch_add(1, Relaxed) gives the id.
NewFetch ==
    \E t \in Threads, a \in Allocs, keep \in BOOLEAN :
       /\ pending[t] = Empty
       /\ ext[a] > 0
       /\ newCalls < MaxNews
       /\ newCalls' = newCalls + 1
       /\ issued' = issued \cup {FetchAdd(counter, 1).old}
       /\ ext' = IF keep THEN ext ELSE [ext EXCEPT ![a] = @ - 1]
       /\ strong' = IF keep THEN [strong EXCEPT ![a] = @ + 1] ELSE strong
       /\ pending' = [pending EXCEPT ![t] = BlobRec(a, FetchAdd(counter, 1).old)]
       /\ counter' = FetchAdd(counter, 1).new
       /\ op' = "fetch_add" /\ arg' = t /\ ret' = FetchAdd(counter, 1).old
       /\ UNCHANGED <<target, clip, made, blobs, weaks>>

\* Blob::new, second step on thread t: the Blob is returned to the caller,
\* who puts it in a free slot.
NewReturn ==
    \E t \in Threads, h \in BlobSlots :
       /\ pending[t] # Empty
       /\ blobs[h] = Empty
       /\ blobs' = [blobs EXCEPT ![h] = pending[t]]
       /\ pending' = [pending EXCEPT ![t] = Empty]
       /\ op' = "Blob::new" /\ arg' = t /\ ret' = pending[t]
       /\ UNCHANGED <<target, clip, counter, newCalls, issued, made, strong, ext, weaks>>

\* Blob::from_raw_parts(data, id): an Arc of the caller and any id.
FromRawParts ==
    \E a \in Allocs, id \in RawIds, h \in BlobSlots :
       /\ ext[a] > 0
       /\ blobs[h] = Empty
       /\ ext' = [ext EXCEPT ![a] = @ - 1]
       /\ blobs' = [blobs EXCEPT ![h] = BlobRec(a, id)]
       /\ op' = "from_raw_parts" /\ arg' = Unit /\ ret' = Unit
       /\ UNCHANGED <<target, clip, counter, newCalls, issued, pending, made, strong, weaks>>

\* Blob::into_raw_parts(self): the Blob is consumed, its Arc goes to the
\* caller.
IntoRawParts ==
    \E h \in BlobSlots :
       /\ blobs[h] # Empty
       /\ ext[blobs[h].data] + 1 \in ExtCounts
       /\ ext' = [ext EXCEPT ![blobs[h].data] = @ + 1]
       /\ blobs' = [blobs EXCEPT ![h] = Empty]
       /\ op' = "into_raw_parts" /\ arg' = Unit /\ ret' = Unit
       /\ UNCHANGED <<target, clip, counter, newCalls, issued, pending, made, strong, weaks>>

\* <Blob as Clone>::clone(&self)
BlobClone ==
    \E h \in BlobSlots, h2 \in BlobSlots :
       /\ blobs[h] # Empty
       /\ blobs[h2] = Empty
       /\ strong' = [strong EXCEPT ![blobs[h].data] = @ + 1]
       /\ blobs' = [blobs EXCEPT ![h2] = BlobRec(blobs[h].data, blobs[h].id)]
       /\ op' = "clone" /\ arg' = Unit /\ ret' = Unit
       /\ UNCHANGED <<target, clip, counter, newCalls, issued, pending, made, ext, weaks>>

\* A Blob is dropped: its Arc is dropped.
BlobDrop ==
    \E h \in BlobSlots :
       /\ blobs[h] # Empty
       /\ strong' = [strong EXCEPT ![blobs[h].data] = @ - 1]
       /\ blobs' = [blobs EXCEPT ![h] = Empty]
       /\ op' = "drop" /\ arg' = Unit /\ ret' = Unit
       /\ UNCHANGED <<target, clip, counter, newCalls, issued, pending, made, ext, weaks>>

\* Blob::downgrade(&self)
Downgrade ==
    \E h \in BlobSlots, w \in WeakSlots :
       /\ blobs[h] # Empty
       /\ weaks[w] = Empty
       /\ weaks' = [weaks EXCEPT ![w] = BlobRec(blobs[h].data, blobs[h].id)]
       /\ op' = "downgrade" /\ arg' = Unit /\ ret' = Unit
       /\ UNCHANGED <<target, clip, counter, newCalls, issued, pending, made, strong, ext, blobs>>

\* A WeakBlob is dropped.
WeakDrop ==
    \E w \in WeakSlots :
       /\ weaks[w] # Empty
       /\ weaks' = [weaks EXCEPT ![w] = Empty]
       /\ op' = "weak.drop" /\ arg' = Unit /\ ret' = Unit
       /\ UNCHANGED <<target, clip, counter, newCalls, issued, pending, made, strong, ext, blobs>>

\* WeakBlob::upgrade(&self) whose result the caller keeps in a free slot.
UpgradeKept ==
    \E w \in WeakSlots, h \in BlobSlots :
       /\ weaks[w] # Empty
       /\ blobs[h] = Empty
       /\ WeakUpgradeSucceeds(strong[weaks[w].data])
       /\ strong' = [strong EXCEPT ![weaks[w].data] = @ + 1]
       /\ blobs' = [blobs EXCEPT ![h] = BlobRec(weaks[w].data, weaks[w].id)]
       /\ op' = "upgrade" /\ arg' = w
       /\ ret' = Some([data |-> weaks[w].data, id |-> weaks[w].id, slot |-> h])
       /\ UNCHANGED <<target, clip, counter, newCalls, issued, pending, made, ext, weaks>>

\* WeakBlob::upgrade(&self) whose result, if any, the caller drops at once.
UpgradeDropped ==
    \E w \in WeakSlots :
       /\ weaks[w] # Empty
       /\ op' = "upgrade" /\ arg' = w
       /\ ret' = IF WeakUpgradeSucceeds(strong[weaks[w].data])
                 THEN Some([data |-> weaks[w].data, id |-> weaks[w].id, slot |-> "dropped"])
                 ELSE None
       /\ UNCHANGED <<target, clip, counter, newCalls, issued, pending, made, strong, ext, blobs, weaks>>

NextBlob ==
    \/ ArcNew
    \/ ArcDrop
    \/ NewFetch
    \/ NewReturn
    \/ FromRawParts
    \/ IntoRawParts
    \/ BlobClone
    \/ BlobDrop
    \/ Downgrade
    \/ WeakDrop
    \/ UpgradeKept
    \/ UpgradeDropped

SpecBlob == InitBlob /\ [][NextBlob]_vars

(* ---------------------- ImageFormat state machine -------------------- *)

InitImage ==
    /\ target \in Targets
    /\ clip = ClipFill(IDENTITY, GeomRect(Rect(Zero, Zero, Real(2), Real(3))), "NonZero")
    /\ op = "new"
    /\ arg = Unit
    /\ ret = Unit
    /\ NoBlobs

\* ImageFormat::size_in_bytes(self, width, height)
SizeInBytesCall ==
    \E format \in ImageFormats, width \in 0..U32Max, height \in 0..U32Max :
       /\ op' = "size_in_bytes"
       /\ arg' = [format |-> format, width |-> width, height |-> height]
       /\ ret' = SizeInBytes(target, format, width, height)
       /\ UNCHANGED <<target, clip, blobVars>>

NextImage == SizeInBytesCall

SpecImage == InitImage /\ [][NextImage]_vars

(* ------------------------------- claims ------------------------------- *)

MinOf(S) == CHOOSE m \in S : \A x \in S : m <= x
MaxOf(S) == CHOOSE m \in S : \A x \in S : m >= x

\* The four corners of the rectangle b mapped through the transform t.
Corners(t, b) ==
    { AffineMulPoint(t, Point(x, y)) : x \in {b.x0, b.x1}, y \in {b.y0, b.y1} }

\* The smallest rectangle that contains the finite points ps.
BoxOf(ps) ==
    Rect(MinOf({p.x : p \in ps}), MinOf({p.y : p \in ps}),
         MaxOf({p.x : p \in ps}), MaxOf({p.y : p \in ps}))

Contains(r, p) == r.x0 <= p.x /\ p.x <= r.x1 /\ r.y0 <= p.y /\ p.y <= r.y1

FillOfFiniteInputs ==
    /\ op = "bounds"
    /\ clip.kind = "Fill"
    /\ AffineIsFinite(clip.transform)
    /\ IsSome(GeomBounds(clip.shape))

\* C1, as claimed: for a Clip::Fill whose shape has finite bounds B and whose
\* transform T is finite, bounds() returns the bounding box of the four
\* corners of B mapped through T, for every such input.
C1_AsClaimed ==
    FillOfFiniteInputs =>
        /\ IsSome(ret)
        /\ ret = Some(BoxOf(Corners(clip.transform, Unwrap(GeomBounds(clip.shape)))))

\* C1, amended: for a Clip::Fill whose shape has finite bounds B and whose
\* transform T is finite, bounds() is the bounding box of the four corners of
\* B mapped through T (minimum and maximum over all four, so it contains each
\* of them) when the four mapped corners are finite, and None when mapping a
\* corner overflows.
C1_BoundsIsBoxOfFourCorners ==
    FillOfFiniteInputs =>
        LET cs == Corners(clip.transform, Unwrap(GeomBounds(clip.shape)))
        IN  IF \A p \in cs : PointIsFinite(p)
            THEN /\ ret = Some(BoxOf(cs))
                 /\ \A p \in cs : Contains(Unwrap(ret), p)
            ELSE ret = None

\* A quarter turn of Rect(0, 0, 2, 3): the box (-3, 0, 0, 2) of the four
\* corners, which the two-corner rectangle (0, 0, -3, 2) is not.
C1_Witness ==
    /\ FillOfFiniteInputs
    /\ clip.transform = QuarterTurn
    /\ clip.shape = GeomRect(Rect(Zero, Zero, Real(2), Real(3)))
    /\ ret = Some(Rect(Real(-3), Zero, Zero, Real(2)))
    /\ Unwrap(ret) # TwoCornerRect(clip.transform, clip.shape.rect)

IsTranslation(t) ==
    /\ t[1] = One /\ t[2] = Zero /\ t[3] = Zero /\ t[4] = One
    /\ IsFiniteF(t[5]) /\ IsFiniteF(t[6])

IsOrderedFiniteRect(g) ==
    /\ g.kind = "Rect"
    /\ RectIsFinite(g.rect)
    /\ g.rect.x0 <= g.rect.x1
    /\ g.rect.y0 <= g.rect.y1

FillOfTranslatedRect ==
    /\ op = "bounds"
    /\ clip.kind = "Fill"
    /\ IsTranslation(clip.transform)
    /\ IsOrderedFiniteRect(clip.shape)

\* The rectangle r moved by (dx, dy), in f64 arithmetic.
Moved(r, dx, dy) == Rect(FAdd(r.x0, dx), FAdd(r.y0, dy), FAdd(r.x1, dx), FAdd(r.y1, dy))

\* C2, as claimed: for every Clip::Fill whose transform is a translation by
\* (dx, dy) and whose shape is a finite ordered Rect(x0, y0, x1, y1),
\* bounds() == Some(Rect(x0+dx, y0+dy, x1+dx, y1+dy)).
C2_AsClaimed ==
    FillOfTranslatedRect =>
        ret = Some(Moved(clip.shape.rect, clip.transform[5], clip.transform[6]))

\* C2, amended: for every Clip::Fill whose transform is a translation by
\* (dx, dy) and whose shape is a finite ordered Rect(x0, y0, x1, y1), for
\* either fill rule, bounds() == Some(Rect(x0+dx, y0+dy, x1+dx, y1+dy)) when
\* the four sums are finite, and None when a sum overflows.
C2_TranslatedRect ==
    FillOfTranslatedRect =>
        LET m == Moved(clip.shape.rect, clip.transform[5], clip.transform[6])
        IN  ret = IF RectIsFinite(m) THEN Some(m) ELSE None

\* translate(5, -2) of Rect(0, 0, 2, 3) gives Rect(5, -2, 7, 1).
C2_Witness ==
    /\ FillOfTranslatedRect
    /\ clip.transform = Translate(Real(5), Real(-2))
    /\ clip.shape.rect = Rect(Zero, Zero, Real(2), Real(3))
    /\ clip.fill_rule = "EvenOdd"
    /\ ret = Some(Rect(Real(5), Real(-2), Real(7), One))

StrokeOfRectUnderIdentity ==
    /\ op = "bounds"
    /\ clip.kind = "Stroke"
    /\ clip.transform = IDENTITY
    /\ IsOrderedFiniteRect(clip.shape)
    /\ \A v \in {clip.stroke.width, clip.stroke.miter_limit, clip.stroke.dash_offset} :
          IsFiniteF(v)
    /\ \A i \in 1..Len(clip.stroke.dash_pattern) : IsFiniteF(clip.stroke.dash_pattern[i])

Magnitude(a) == IF a < 0 THEN -a ELSE a

\* o = 0.5 * |width| * max(|miter_limit|, 1.0) of finite width and miter
\* limit, computed exactly and then rounded into the f64 range.
OutsetOf(stroke) ==
    LET w == Magnitude(stroke.width)
        m == Magnitude(stroke.miter_limit)
    IN  Sat((w * (IF m > One THEN m ELSE One)) \div 4)

Outset(r, o) == Rect(FSub(r.x0, o), FSub(r.y0, o), FAdd(r.x1, o), FAdd(r.y1, o))

\* C3, as claimed: for every Clip::Stroke with the identity transform, a
\* finite ordered Rect and a finite stroke,
\* bounds() == Some(Rect(x0-o, y0-o, x1+o, y1+o)), with
\* o = 0.5 * |width| * max(|miter_limit|, 1.0).
C3_AsClaimed ==
    StrokeOfRectUnderIdentity =>
        ret = Some(Outset(clip.shape.rect, OutsetOf(clip.stroke)))

\* C3, amended: for every Clip::Stroke with the identity transform, a finite
\* ordered Rect and a finite stroke, with
\* o = 0.5 * |width| * max(|miter_limit|, 1.0),
\* bounds() == Some(Rect(x0-o, y0-o, x1+o, y1+o)) when these four values are
\* finite, and None when the outset or an outset coordinate overflows.
C3_StrokeOutset ==
    StrokeOfRectUnderIdentity =>
        LET e == Outset(clip.shape.rect, OutsetOf(clip.stroke))
        IN  ret = IF RectIsFinite(e) THEN Some(e) ELSE None

\* Width 2, miter limit 4 on Rect(0, 0, 2, 3) gives Rect(-4, -4, 6, 7).
C3_Witness ==
    /\ StrokeOfRectUnderIdentity
    /\ clip.stroke.width = Real(2)
    /\ clip.stroke.miter_limit = Real(4)
    /\ clip.shape.rect = Rect(Zero, Zero, Real(2), Real(3))
    /\ ret = Some(Rect(Real(-4), Real(-4), Real(6), Real(7)))

\* Every f64 field of a transform, of a shape and of a stroke.
TransformNumbers(t) == { t[i] : i \in 1..6 }

RectNumbers(r) == {r.x0, r.y0, r.x1, r.y1}

ShapeNumbers(g) ==
    CASE g.kind = "Rect" -> RectNumbers(g.rect)
      [] g.kind = "RoundedRect" ->
            RectNumbers(g.rr.rect)
            \cup {g.rr.radii.top_left, g.rr.radii.top_right,
                  g.rr.radii.bottom_right, g.rr.radii.bottom_left}
      [] g.kind = "Path" ->
            UNION { CASE g.path[i].el = "ClosePath" -> {}
                      [] g.path[i].el = "QuadTo" ->
                            {g.path[i].p1.x, g.path[i].p1.y, g.path[i].p.x, g.path[i].p.y}
                      [] g.path[i].el = "CurveTo" ->
                            {g.path[i].p1.x, g.path[i].p1.y, g.path[i].p2.x, g.path[i].p2.y,
                             g.path[i].p.x, g.path[i].p.y}
                      [] OTHER -> {g.path[i].p.x, g.path[i].p.y} : i \in 1..Len(g.path) }

StrokeNumbers(s) ==
    {s.width, s.miter_limit, s.dash_offset}
    \cup { s.dash_pattern[i] : i \in 1..Len(s.dash_pattern) }

AllFinite(ns) == ns \cap Specials = {}
SomeNaN(ns) == NaN \in ns

\* C4: for every Clip (Fill or Stroke) whose transform has a NaN or infinite
\* coefficient and whose shape is finite (zero coordinates and empty
\* rectangles included), with any stroke, bounds() returns None; nothing
\* tests the transform itself, the final finiteness filter rejects the
\* transformed rectangle.
C4_NonFiniteTransformGivesNone ==
    ( /\ op = "bounds"
      /\ ~AllFinite(TransformNumbers(clip.transform))
      /\ AllFinite(ShapeNumbers(clip.shape)) )
    => ret = None

\* An infinite x scale on Rect(0, 0, 2, 3): the corners with x = 0 map to NaN
\* (infinity * 0), the others to infinity.
C4_Witness ==
    /\ op = "bounds"
    /\ clip.kind = "Fill"
    /\ clip.transform = Affine(PInf, Zero, Zero, One, Zero, Zero)
    /\ clip.shape = GeomRect(Rect(Zero, Zero, Real(2), Real(3)))
    /\ AffineMulPoint(clip.transform, Point(Zero, Zero)).x = NaN
    /\ ret = None

\* C5: for every Clip::Stroke whose stroke width, miter limit, dash offset or
\* some dash-pattern entry is NaN or infinite, bounds() == None and
\* is_finite() == false, whatever the transform and the shape.
C5_NonFiniteStroke ==
    ( /\ clip.kind = "Stroke"
      /\ ~AllFinite(StrokeNumbers(clip.stroke)) )
    => /\ op = "bounds" => ret = None
       /\ op = "is_finite" => ret = FALSE

\* A NaN dash length, which the outset does not read, on finite geometry.
C5_Witness ==
    /\ op = "bounds"
    /\ clip.kind = "Stroke"
    /\ clip.stroke = Stroke(Real(2), Real(4), <<One, NaN>>, Zero)
    /\ AllFinite(TransformNumbers(clip.transform))
    /\ AllFinite(ShapeNumbers(clip.shape))
    /\ ret = None

\* C6: for every Clip c, if c.is_finite() is false then c.bounds() is None:
\* bounds() returns Some only when the transform, every numeric field of the
\* shape (radii and every path point included) and, for Stroke, every numeric
\* stroke field are finite.
C6_NotFiniteImpliesNoBounds ==
    ( /\ op = "bounds"
      /\ IsSome(ret) )
    => /\ ClipIsFinite(clip)
       /\ AllFinite(TransformNumbers(clip.transform))
       /\ AllFinite(ShapeNumbers(clip.shape))
       /\ clip.kind = "Stroke" => AllFinite(StrokeNumbers(clip.stroke))

\* C7: for every Clip::Fill, is_finite() is true if and only if the transform
\* is finite and the shape is finite, and the fill rule never changes the
\* result.
C7_FillIsFinite ==
    ( /\ op = "is_finite"
      /\ clip.kind = "Fill" )
    => /\ ret = ( /\ AllFinite(TransformNumbers(clip.transform))
                  /\ AllFinite(ShapeNumbers(clip.shape)) )
       /\ \A f \in FillRules : ClipIsFinite([clip EXCEPT !.fill_rule = f]) = ret

\* A finite transform and a finite shape under the even-odd rule.
C7_Witness ==
    /\ op = "is_finite"
    /\ clip.kind = "Fill"
    /\ clip.fill_rule = "EvenOdd"
    /\ AllFinite(TransformNumbers(clip.transform))
    /\ clip.shape.kind = "RoundedRect"
    /\ AllFinite(ShapeNumbers(clip.shape))
    /\ ret = TRUE

\* C8: for every Clip::Stroke, is_finite() is true if and only if the
\* transform is finite, the shape is finite, and the stroke's width, miter
\* limit, dash offset and every dash-pattern entry are finite; an empty dash
\* pattern imposes no condition.
C8_StrokeIsFinite ==
    ( /\ op = "is_finite"
      /\ clip.kind = "Stroke" )
    => ret = ( /\ AllFinite(TransformNumbers(clip.transform))
               /\ AllFinite(ShapeNumbers(clip.shape))
               /\ AllFinite(StrokeNumbers(clip.stroke)) )

\* An infinite dash offset is the only non-finite value of the clip.
C8_Witness ==
    /\ op = "is_finite"
    /\ clip.kind = "Stroke"
    /\ AllFinite(TransformNumbers(clip.transform))
    /\ AllFinite(ShapeNumbers(clip.shape))
    /\ clip.stroke.dash_offset = PInf
    /\ AllFinite(StrokeNumbers(clip.stroke) \ {PInf})
    /\ Len(clip.stroke.dash_pattern) > 0
    /\ AllFinite({ clip.stroke.dash_pattern[i] : i \in 1..Len(clip.stroke.dash_pattern) })
    /\ ret = FALSE

\* C9: is_nan() is true if and only if some transform coefficient is NaN, or
\* some numeric field of the shape is NaN, or (Stroke only) the stroke width,
\* miter limit, dash offset or some dash-pattern entry is NaN.
C9_IsNan ==
    op = "is_nan" =>
        ret = ( \/ SomeNaN(TransformNumbers(clip.transform))
                \/ SomeNaN(ShapeNumbers(clip.shape))
                \/ /\ clip.kind = "Stroke"
                   /\ SomeNaN(StrokeNumbers(clip.stroke)) )

\* The miter limit is the only NaN of the clip: one NaN stroke field suffices.
C9_Witness ==
    /\ op = "is_nan"
    /\ clip.kind = "Stroke"
    /\ ~SomeNaN(TransformNumbers(clip.transform))
    /\ ~SomeNaN(ShapeNumbers(clip.shape))
    /\ IsNanF(clip.stroke.miter_limit)
    /\ ~IsNanF(clip.stroke.width)
    /\ ~IsNanF(clip.stroke.dash_offset)
    /\ ret = TRUE

\* C10: for every Clip (Fill or Stroke, any shape and stroke) in which some
\* transform coefficient is NaN, is_nan() == true and is_finite() == false.
C10_NanTransform ==
    SomeNaN(TransformNumbers(clip.transform)) =>
        /\ op = "is_nan" => ret = TRUE
        /\ op = "is_finite" => ret = FALSE

\* A NaN translation on an otherwise finite Stroke clip.
C10_Witness ==
    /\ op = "is_finite"
    /\ clip.kind = "Stroke"
    /\ IsNanF(clip.transform[5])
    /\ AllFinite(ShapeNumbers(clip.shape))
    /\ AllFinite(StrokeNumbers(clip.stroke))
    /\ ret = FALSE

\* Every f64 field of a clip: transform, shape, and stroke if it has one.
ClipNumbers(c) ==
    TransformNumbers(c.transform) \cup ShapeNumbers(c.shape)
    \cup (IF c.kind = "Stroke" THEN StrokeNumbers(c.stroke) ELSE {})

SomeInf(ns) == PInf \in ns \/ NInf \in ns

\* C11: a Clip with an infinite value in its transform, shape or stroke and
\* no NaN anywhere answers false to is_finite() and false to is_nan(); a
\* ClipGeometry with an infinite field and no NaN field does the same.
C11_InfiniteIsNeitherFiniteNorNan ==
    /\ ( /\ op \in {"is_finite", "is_nan"}
         /\ SomeInf(ClipNumbers(clip))
         /\ ~SomeNaN(ClipNumbers(clip)) )
       => ret = FALSE
    /\ ( /\ op \in {"shape.is_finite", "shape.is_nan"}
         /\ SomeInf(ShapeNumbers(clip.shape))
         /\ ~SomeNaN(ShapeNumbers(clip.shape)) )
       => ret = FALSE

\* is_nan() asked of a path whose only non-finite value is the infinite y of
\* a quadratic control point.
C11_Witness ==
    /\ op = "shape.is_nan"
    /\ clip.shape = GeomPath(<<MoveTo(Point(Zero, Zero)),
                               QuadTo(Point(One, PInf), Point(Zero, Zero))>>)
    /\ ret = FALSE

\* C12: ClipGeometry::is_finite() is true exactly when every numeric field
\* of the active variant is finite (the four coordinates of a Rect, the four
\* coordinates and the radii of a RoundedRect, every coordinate of every
\* element of a Path, control points included), and is_nan() is true
\* exactly when at least one of those fields is NaN.
C12_GeometryIsFiniteIsNan ==
    /\ op = "shape.is_finite" => ret = AllFinite(ShapeNumbers(clip.shape))
    /\ op = "shape.is_nan" => ret = SomeNaN(ShapeNumbers(clip.shape))

\* A path whose only non-finite value is the NaN x of a control point.
C12_Witness ==
    /\ op = "shape.is_finite"
    /\ clip.shape = GeomPath(<<MoveTo(Point(Zero, Zero)),
                               QuadTo(Point(NaN, One), Point(Real(2), Zero))>>)
    /\ ret = FALSE

\* C13: ClipGeometry::bounds() of a Rect with four finite coordinates is
\* Some of that same rectangle, unchanged; of a RoundedRect whose outer
\* rectangle R is finite it is Some(R) whatever the radii, zero included.
C13_RectAndRoundedRectBounds ==
    /\ ( /\ op = "shape.bounds"
         /\ clip.shape.kind = "Rect"
         /\ AllFinite(RectNumbers(clip.shape.rect)) )
       => ret = Some(clip.shape.rect)
    /\ ( /\ op = "shape.bounds"
         /\ clip.shape.kind = "RoundedRect"
         /\ AllFinite(RectNumbers(clip.shape.rr.rect)) )
       => ret = Some(clip.shape.rr.rect)

\* An inverted rectangle comes back as it is stored.
C13_Witness ==
    /\ op = "shape.bounds"
    /\ clip.shape = GeomRect(Rect(Real(2), Real(3), Zero, Zero))
    /\ ret = Some(Rect(Real(2), Real(3), Zero, Zero))

\* The coordinates ClipGeometry::bounds() needs: the rectangle's four, or
\* those of every point (end or control) of every segment of the path.
NeededNumbers(g) ==
    CASE g.kind = "Rect" -> RectNumbers(g.rect)
      [] g.kind = "RoundedRect" -> RectNumbers(g.rr.rect)
      [] g.kind = "Path" ->
            UNION { LET seg == Segments(g.path)[i]
                    IN  {seg.p0.x, seg.p0.y, seg.p1.x, seg.p1.y}
                        \cup (IF seg.seg \in {"Quad", "Cubic"} THEN {seg.p2.x, seg.p2.y} ELSE {})
                        \cup (IF seg.seg = "Cubic" THEN {seg.p3.x, seg.p3.y} ELSE {}) :
                    i \in 1..Len(Segments(g.path)) }

\* C14: ClipGeometry::bounds() returns None whenever a coordinate it needs
\* is NaN or infinite: one of the four coordinates of a Rect or of a
\* RoundedRect, or a coordinate of a point of a segment of a Path.
C14_NonFiniteCoordinateGivesNone ==
    ( /\ op = "shape.bounds"
      /\ ~AllFinite(NeededNumbers(clip.shape)) )
    => ret = None

\* C15: the rectangle inside every Some that Clip::bounds() or
\* ClipGeometry::bounds() returns has four finite coordinates; when the
\* computation overflows on finite inputs the result is None.
C15_SomeIsFinite ==
    ( /\ op \in {"bounds", "shape.bounds"}
      /\ IsSome(ret) )
    => AllFinite(RectNumbers(Unwrap(ret)))

\* A finite rectangle far enough out that a finite translation of it
\* overflows: the shape has bounds, the clip has none.
C15_Witness ==
    /\ op = "bounds"
    /\ clip.kind = "Fill"
    /\ AllFinite(ClipNumbers(clip))
    /\ IsSome(GeomBounds(clip.shape))
    /\ ret = None

DropZeroSign(a) == IF a = NegZero THEN Zero ELSE a

\* C16 as stated: two ClipGeometry values are equal if and only if they are
\* the same variant with bit-for-bit identical fields, so a value equals its
\* clone even with a NaN field, and values that differ in the sign of a zero
\* are not equal.
C16_AsClaimed ==
    op = "shape.eq" => ret = (clip.shape = arg)

\* C16: two ClipGeometry values are equal if and only if they are the same
\* variant, neither has a NaN field, and their fields are identical up to
\* the sign of zeros: a value with a NaN field does not equal its clone,
\* and values that differ only in the sign of a zero are equal.
C16_EqualityIsNumeric ==
    op = "shape.eq" =>
       ret = ( /\ ~SomeNaN(ShapeNumbers(clip.shape))
               /\ ~SomeNaN(ShapeNumbers(arg))
               /\ MapCoords(DropZeroSign, clip.shape) = MapCoords(DropZeroSign, arg) )

\* A rectangle compared with itself up to the sign of its zero coordinates.
C16_Witness ==
    /\ op = "shape.eq"
    /\ clip.shape = GeomRect(Rect(Zero, Zero, Real(2), Real(3)))
    /\ arg = GeomRect(Rect(NegZero, NegZero, Real(2), Real(3)))
    /\ ret = TRUE

\* C17: to_path(tolerance) on the Path variant returns the stored path,
\* element for element, for every tolerance (positive, zero, negative or
\* NaN), and leaves the original unchanged.
C17_ToPathOfPath ==
    /\ [](( /\ op = "shape.to_path"
           /\ clip.shape.kind = "Path" )
          => ret = clip.shape.path)
    /\ [][op' = "shape.to_path" => clip' = clip]_vars

\* A path with a curve, asked for with a NaN tolerance.
C17_Witness ==
    /\ op = "shape.to_path"
    /\ arg = NaN
    /\ clip.shape = GeomPath(<<MoveTo(Point(Zero, Zero)),
                               QuadTo(Point(One, Real(2)), Point(Real(2), Zero))>>)
    /\ ret = clip.shape.path

C19_NewIdsAreUnique ==
    newCalls <= Modulus =>
       /\ Cardinality(issued) = newCalls
       /\ \A t \in Threads, u \in Threads :
             (t # u /\ pending[t] # Empty /\ pending[u] # Empty)
             => pending[t].id # pending[u].id

\* Two calls of Blob::new are running at once, each past its fetch_add.
C19_Witness ==
    /\ \A t \in Threads : pending[t] # Empty
    /\ newCalls = 2
    /\ issued = {0, 1}

\* A strong Blob shares the data of the WeakBlob of the last upgrade, the
\* Blob that upgrade returned not counted.
SharingBlobAlive ==
    \E h \in BlobSlots :
       /\ blobs[h] # Empty
       /\ blobs[h].data = weaks[arg].data
       /\ ~(IsSome(ret) /\ Unwrap(ret).slot = h)

\* An Arc to that data is held outside any Blob: by the caller, or by a
\* call of Blob::new that has not returned.
SharingArcAlive ==
    \/ ext[weaks[arg].data] > 0
    \/ \E t \in Threads : pending[t] # Empty /\ pending[t].data = weaks[arg].data

\* C20 as stated: upgrade returns Some(blob) with the id of the Blob it was
\* downgraded from while a strong Blob sharing the data is alive, and None
\* once every such Blob has been dropped.
C20_AsClaimed ==
    op = "upgrade" =>
       IF SharingBlobAlive
       THEN IsSome(ret) /\ Unwrap(ret).id = weaks[arg].id
       ELSE ret = None

\* C20: upgrade returns Some(blob) with the id of the Blob it was
\* downgraded from while a strong reference to the data is alive, be it a
\* Blob sharing the data or an Arc held outside any Blob, and None once all
\* of them have been dropped; a strong count that has reached zero stays
\* zero, so every later call returns None as well.
C20_UpgradeFollowsStrongReferences ==
    /\ [](op = "upgrade" =>
            IF SharingBlobAlive \/ SharingArcAlive
            THEN /\ IsSome(ret)
                 /\ Unwrap(ret).id = weaks[arg].id
                 /\ Unwrap(ret).data = weaks[arg].data
            ELSE ret = None)
    /\ [][\A a \in Allocs : (made[a] /\ strong[a] = 0) => strong'[a] = 0]_vars

\* upgrade has returned None: the data was made and every strong reference
\* to it is gone.
C20_Witness ==
    /\ op = "upgrade"
    /\ ret = None
    /\ made[weaks[arg].data]
    /\ ~SharingBlobAlive
    /\ ~SharingArcAlive

\* C21 as stated: size_in_bytes returns Some(4 * width * height) when that
\* product fits in usize and None exactly when it overflows usize.
C21_AsClaimed ==
    op = "size_in_bytes" =>
       ret = IF 4 * arg.width * arg.height <= UsizeMax(target)
             THEN Some(4 * arg.width * arg.height)
             ELSE None

\* C21: size_in_bytes returns Some(4 * width * height) when 4 * width and
\* 4 * width * height both fit in usize, and None otherwise, for both
\* formats; what it returns inside Some is never a wrapped value.
C21_SizeInBytes ==
    op = "size_in_bytes" =>
       /\ ret = IF /\ 4 * arg.width <= UsizeMax(target)
                   /\ 4 * arg.width * arg.height <= UsizeMax(target)
                THEN Some(4 * arg.width * arg.height)
                ELSE None
       /\ IsSome(ret) => Unwrap(ret) = 4 * arg.width * arg.height

\* On a 64-bit target the largest width and height overflow usize.
C21_Witness ==
    /\ op = "size_in_bytes"
    /\ target = "64"
    /\ arg.format = "Bgra8"
    /\ arg.width = U32Max
    /\ arg.height = U32Max
    /\ ret = None

StrokeOfFiniteInputs ==
    /\ op = "bounds"
    /\ clip.kind = "Stroke"
    /\ AffineIsFinite(clip.transform)
    /\ GeomIsFinite(clip.shape)
    /\ IsSome(GeomBounds(clip.shape))
    /\ stroke_is_finite(clip.stroke)

\* The shape bounds moved outwards by the outset of the stroke, in shape space.
OutsetBounds(c) == Outset(Unwrap(GeomBounds(c.shape)), OutsetOf(c.stroke))

\* C22, as claimed: for every Clip::Stroke with a finite transform, a finite
\* shape and a finite stroke, bounds() is the bounding box of the transformed
\* corners of the shape bounds inflated by the outset.
C22_AsClaimed ==
    StrokeOfFiniteInputs =>
        ret = Some(BoxOf(Corners(clip.transform, OutsetBounds(clip))))

\* C22, amended: for every Clip::Stroke with a finite transform, a finite
\* shape and a finite stroke, the outset is applied in shape space: bounds()
\* is the bounding box of the transformed corners of the shape bounds
\* inflated by the outset when the inflated bounds and their transformed
\* corners are finite, and None when one of them overflows.
C22_OutsetBeforeTransform ==
    StrokeOfFiniteInputs =>
        LET e  == OutsetBounds(clip)
            cs == Corners(clip.transform, e)
        IN  ret = IF RectIsFinite(e) /\ \A p \in cs : PointIsFinite(p)
                  THEN Some(BoxOf(cs)) ELSE None

\* scale(2), Rect(0, 0, 2, 3), width 2, miter limit 4: the outset 4 becomes 8
\* and bounds() is Rect(-8, -8, 12, 14), not the scaled rectangle
\* Rect(0, 0, 4, 6) inflated by 4.
C22_Witness ==
    /\ StrokeOfFiniteInputs
    /\ clip.transform = Scale(Real(2))
    /\ clip.shape = GeomRect(Rect(Zero, Zero, Real(2), Real(3)))
    /\ clip.stroke.width = Real(2)
    /\ clip.stroke.miter_limit = Real(4)
    /\ ret = Some(Rect(Real(-8), Real(-8), Real(12), Real(14)))
    /\ ret # Some(Outset(Rect(Zero, Zero, Real(4), Real(6)), Real(4)))

\* Clip::Fill with the transform and the shape of the clip c.
FillOf(c) == ClipFill(c.transform, c.shape, "NonZero")

RectContainsRect(s, f) == s.x0 <= f.x0 /\ s.y0 <= f.y0 /\ s.x1 >= f.x1 /\ s.y1 >= f.y1

\* C23: for every Clip::Stroke with a finite transform, a finite shape and a
\* finite stroke, if bounds() is Some(S) and the Clip::Fill with the same
\* transform and shape has bounds Some(F), then S contains F, also when the
\* shape is a Rect given with x0 > x1 or y0 > y1.
C23_StrokeBoundsContainFillBounds ==
    ( /\ StrokeOfFiniteInputs
      /\ IsSome(ret)
      /\ IsSome(ClipBounds(FillOf(clip))) ) =>
        RectContainsRect(Unwrap(ret), Unwrap(ClipBounds(FillOf(clip))))

C25_MiterFactorClampedAtOne ==
    ( /\ op = "bounds"
      /\ clip.kind = "Stroke"
      /\ stroke_is_finite(clip.stroke) ) =>
        LET w == Magnitude(clip.stroke.width)
            m == Magnitude(clip.stroke.miter_limit)
        IN  /\ m <= One => stroke_outset(clip.stroke) = w \div 2
            /\ m > One  => stroke_outset(clip.stroke) = Sat((w * m) \div 4)
            /\ clip.stroke.width = Zero => ret = ClipBounds(FillOf(clip))

\* Width 2 with miter limit 0 on Rect(0, 0, 2, 3): the outset is 1, not 0.
C25_Witness ==
    /\ op = "bounds"
    /\ clip.kind = "Stroke"
    /\ stroke_is_finite(clip.stroke)
    /\ clip.transform = IDENTITY
    /\ clip.shape = GeomRect(Rect(Zero, Zero, Real(2), Real(3)))
    /\ clip.stroke.width = Real(2)
    /\ clip.stroke.miter_limit = Zero
    /\ stroke_outset(clip.stroke) = One
    /\ ret = Some(Rect(Real(-1), Real(-1), Real(3), Real(4)))

\* The stroke with the width and the miter limit of the stroke s, a round
\* join, round caps and no dashes.
PlainStroke(s) == Stroke(s.width, s.miter_limit, << >>, Zero)

\* C26: for every Clip::Stroke whose stroke fields are all finite, bounds()
\* is what it is for the clip with the same transform, shape, width and miter
\* limit and a round join, round caps and no dashes; so two such clips that
\* differ in join, caps, dash pattern or dash offset only have the same
\* bounds, and a Round or Bevel join does not remove the miter factor.
C26_OnlyWidthAndMiterLimitMatter ==
    ( /\ op = "bounds"
      /\ clip.kind = "Stroke"
      /\ stroke_is_finite(clip.stroke) ) =>
        ret = ClipBounds([clip EXCEPT !.stroke = PlainStroke(clip.stroke)])

\* A bevel join with a butt and a square cap, width 2 and miter limit 4 on
\* Rect(0, 0, 2, 3): the outset is 4 as for a miter join.
C26_Witness ==
    /\ op = "bounds"
    /\ clip.kind = "Stroke"
    /\ clip.transform = IDENTITY
    /\ clip.shape = GeomRect(Rect(Zero, Zero, Real(2), Real(3)))
    /\ clip.stroke.join = "Bevel"
    /\ clip.stroke.start_cap = "Butt"
    /\ clip.stroke.end_cap = "Square"
    /\ clip.stroke.width = Real(2)
    /\ clip.stroke.miter_limit = Real(4)
    /\ ret = Some(Rect(Real(-4), Real(-4), Real(6), Real(7)))

\* The result of the query q on the clip c.
Query(q, c) ==
    CASE q = "bounds"    -> ClipBounds(c)
      [] q = "is_finite" -> ClipIsFinite(c)
      [] q = "is_nan"    -> ClipIsNan(c)

\* C27: for every Clip::Fill, bounds(), is_finite() and is_nan() return what
\* they return for the Fill clip with the same transform and shape and any
\* other fill rule.
C27_FillRuleInfluencesNoQuery ==
    ( /\ clip.kind = "Fill"
      /\ op \in {"bounds", "is_finite", "is_nan"} ) =>
        \A f \in FillRules : ret = Query(op, [clip EXCEPT !.fill_rule = f])

\* An EvenOdd fill of Rect(0, 0, 2, 3) scaled by 2 has the bounds
\* Rect(0, 0, 4, 6) of the NonZero fill.
C27_Witness ==
    /\ op = "bounds"
    /\ clip.kind = "Fill"
    /\ clip.fill_rule = "EvenOdd"
    /\ clip.transform = Scale(Real(2))
    /\ clip.shape = GeomRect(Rect(Zero, Zero, Real(2), Real(3)))
    /\ ret = Some(Rect(Zero, Zero, Real(4), Real(6)))
    /\ ret = ClipBounds([clip EXCEPT !.fill_rule = "NonZero"])

\* C28: every rectangle that Clip::bounds() returns inside Some has
\* x0 <= x1 and y0 <= y1, whatever the transform, the shape and the stroke.
C28_BoundsAreNormalised ==
    (op = "bounds" /\ IsSome(ret)) =>
        /\ Unwrap(ret).x0 <= Unwrap(ret).x1
        /\ Unwrap(ret).y0 <= Unwrap(ret).y1

\* A stroke of width 2 and miter limit 1 on the inverted Rect(2, 3, 0, 0),
\* mirrored in x: the inflated rectangle (1, 2, 1, 1) is inverted in y, the
\* returned Rect(-1, 1, -1, 2) is not.
C28_Witness ==
    /\ op = "bounds"
    /\ clip.kind = "Stroke"
    /\ clip.transform = ScaleNonUniform(Real(-1), One)
    /\ clip.shape = GeomRect(Rect(Real(2), Real(3), Zero, Zero))
    /\ clip.stroke.width = Real(2)
    /\ clip.stroke.miter_limit = One
    /\ ret = Some(Rect(Real(-1), One, Real(-1), Real(2)))

\* C29: a Clip, or a ClipGeometry, for which is_nan() returns true is one for
\* which is_finite() returns false, and one for which is_finite() returns true
\* is one for which is_nan() returns false.
C29_NanIsNotFinite ==
    /\ (op = "is_nan" /\ ret = TRUE) => ~ClipIsFinite(clip)
    /\ (op = "is_finite" /\ ret = TRUE) => ~ClipIsNan(clip)
    /\ (op = "shape.is_nan" /\ ret = TRUE) => ~GeomIsFinite(clip.shape)
    /\ (op = "shape.is_finite" /\ ret = TRUE) => ~GeomIsNan(clip.shape)

\* A Stroke clip whose only NaN is the stroke width: is_nan() is true and
\* is_finite() is false.
C29_Witness ==
    /\ op = "is_nan"
    /\ ret = TRUE
    /\ clip.kind = "Stroke"
    /\ AffineIsFinite(clip.transform)
    /\ GeomIsFinite(clip.shape)
    /\ IsNanF(clip.stroke.width)
    /\ IsFiniteF(clip.stroke.miter_limit)
    /\ ~ClipIsFinite(clip)

\* The x and the y coordinates of the control points of a segment, in order.
SegXs(seg) ==
    CASE seg.seg = "Line"  -> <<seg.p0.x, seg.p1.x>>
      [] seg.seg = "Quad"  -> <<seg.p0.x, seg.p1.x, seg.p2.x>>
      [] seg.seg = "Cubic" -> <<seg.p0.x, seg.p1.x, seg.p2.x, seg.p3.x>>

SegYs(seg) ==
    CASE seg.seg = "Line"  -> <<seg.p0.y, seg.p1.y>>
      [] seg.seg = "Quad"  -> <<seg.p0.y, seg.p1.y, seg.p2.y>>
      [] seg.seg = "Cubic" -> <<seg.p0.y, seg.p1.y, seg.p2.y, seg.p3.y>>

\* The curve with the finite control coordinates as at the parameter n/d of
\* [0, 1], as the numerator over the denominator CurveDen: the Bernstein form
\* of degree Len(as) - 1.
CurveNum(as, n, d) ==
    LET m == d - n
    IN  CASE Len(as) = 2 -> as[1] * m + as[2] * n
          [] Len(as) = 3 -> as[1] * m * m + 2 * as[2] * n * m + as[3] * n * n
          [] Len(as) = 4 -> as[1] * m * m * m + 3 * as[2] * n * m * m
                            + 3 * as[3] * n * n * m + as[4] * n * n * n

CurveDen(as, d) ==
    CASE Len(as) = 2 -> d
      [] Len(as) = 3 -> d * d
      [] Len(as) = 4 -> d * d * d

\* The parameters at which the curves are sampled: every n/d of [0, 1] with
\* d at most MaxDen.
MaxDen == 8
Params == { t \in (0..MaxDen) \X (1..MaxDen) : t[1] <= t[2] }

PathBoundsOfFinitePath ==
    /\ op = "shape.bounds"
    /\ clip.shape.kind = "Path"
    /\ GeomIsFinite(clip.shape)
    /\ Len(Segments(clip.shape.path)) > 0

\* C30: for every finite ClipGeometry::Path with a segment, bounds() is
\* Some(r) where r contains every sampled point of every segment, and each
\* of the four edges of r passes through a point of a segment, so that r is
\* the box of the curves and not of their control points.
C30_PathBoundsAreTight ==
    PathBoundsOfFinitePath =>
        /\ IsSome(ret)
        /\ LET r == Unwrap(ret)
               segs == Segments(clip.shape.path)
               Range == 1..Len(segs)
           IN  /\ \A i \in Range, t \in Params :
                     /\ r.x0 * CurveDen(SegXs(segs[i]), t[2]) <= CurveNum(SegXs(segs[i]), t[1], t[2])
                     /\ r.x1 * CurveDen(SegXs(segs[i]), t[2]) >= CurveNum(SegXs(segs[i]), t[1], t[2])
                     /\ r.y0 * CurveDen(SegYs(segs[i]), t[2]) <= CurveNum(SegYs(segs[i]), t[1], t[2])
                     /\ r.y1 * CurveDen(SegYs(segs[i]), t[2]) >= CurveNum(SegYs(segs[i]), t[1], t[2])
               /\ \E i \in Range, t \in Params :
                     r.x0 * CurveDen(SegXs(segs[i]), t[2]) = CurveNum(SegXs(segs[i]), t[1], t[2])
               /\ \E i \in Range, t \in Params :
                     r.x1 * CurveDen(SegXs(segs[i]), t[2]) = CurveNum(SegXs(segs[i]), t[1], t[2])
               /\ \E i \in Range, t \in Params :
                     r.y0 * CurveDen(SegYs(segs[i]), t[2]) = CurveNum(SegYs(segs[i]), t[1], t[2])
               /\ \E i \in Range, t \in Params :
                     r.y1 * CurveDen(SegYs(segs[i]), t[2]) = CurveNum(SegYs(segs[i]), t[1], t[2])

\* The quadratic (0,0), (1,2), (2,0) has the bounds Rect(0, 0, 2, 1), which
\* leave the control point (1, 2) outside.
C30_Witness ==
    /\ PathBoundsOfFinitePath
    /\ clip.shape.path = <<MoveTo(Point(Zero, Zero)),
                           QuadTo(Point(One, Real(2)), Point(Real(2), Zero))>>
    /\ ret = Some(Rect(Zero, Zero, Real(2), One))
    /\ ~Contains(Unwrap(ret), Point(One, Real(2)))

\* The cubic (0,0), (2,3), (4,-2), (6,1) has the bounds Rect(0, 0, 6, 1): its
\* control points (2, 3) and (4, -2) are outside.
CubicBoundsReached ==
    /\ PathBoundsOfFinitePath
    /\ clip.shape.path = <<MoveTo(Point(Zero, Zero)),
                           CurveTo(Point(Real(2), Real(3)), Point(Real(4), Real(-2)),
                                   Point(Real(6), One))>>
    /\ ret = Some(Rect(Zero, Zero, Real(6), One))

====
